---- MODULE Spec2Model ----
(***************************************************************************)
(* A model of the ml-service of v4.api.park.fan: the calendar and holiday  *)
(* resolver (holiday_utils.py), the historical wait-time features          *)
(* (features.py), the feature-schema reconciliation of the model wrapper   *)
(* (model.py) and the schedule resolution and post-processing of           *)
(* predictions (predict.py).                                               *)
(*                                                                         *)
(* Each component has its own variables and its own specification; a       *)
(* specification leaves the variables of the other components at their     *)
(* idle values.                                                            *)
(***************************************************************************)
EXTENDS Integers, Sequences, FiniteSets, TLC

VARIABLES
    \* --- holiday_utils.calculate_holiday_info ---
    date,            \* the date argument, a day number (day 0 is a Monday)
    holiday_map,     \* the holiday_map argument: day number -> entry
    holiday_info,    \* the returned tuple, or NotCalled
    \* --- features.add_historical_features ---
    batch,           \* the rows of the input table: a set of
                     \* [attractionId, timestamp, waitTime]
    hist_df,         \* the table after the rolling columns are assigned (a
                     \* sequence of rows), or <<>> before the call
    \* --- model.WaitTimeModel ---
    metadata,        \* the persisted metadata file: [present, features_used]
    model,           \* self.model: "None", "loaded" or "trained"
    model_feature_columns,  \* self.model_feature_columns: [set, columns]
    X,               \* the caller's feature table: its columns in order, each
                     \* [name, value]
    regressor_input, \* the table last handed to the regressor, or NotCalled
    \* --- predict.predict_wait_times / features.add_park_schedule_features ---
    schedule_entries,  \* the rows of the schedule_entries table
    tz_offset,       \* half hours the parks' local time is ahead of UTC
    request,         \* the arguments of predict_wait_times, or NoRequest
    regressor,       \* what the regressor answers for the request
    features_df,     \* the table create_prediction_features returned
    results,         \* the list predict_wait_times returned
    pc,              \* "idle", "request", "features", "predicted",
                     \* "training", "trained"
    train_batch,     \* the rows handed to add_park_schedule_features
    train_df,        \* the table it returned
    \* --- schedule_filter.filter_predictions_by_schedule ---
    parks_metadata,  \* fetch_parks_metadata(): park id -> "ok", "missing"
                     \* (no row) or "invalid_tz" (a row pytz rejects)
    filtered,        \* the list the filter returned, or NotCalled
    \* --- predict.create_prediction_features: historical features ---
    lag_request,     \* attraction ids, base time, time zone, current waits
    recent_data,     \* the rows fetch_recent_wait_times returned
    lag_df,          \* the historical columns of the feature table
    \* --- main: the shared model reference ---
    global_model,    \* the global `model`: 0 (None) or the id of an object
    heap,            \* the WaitTimeModel objects ever constructed: id ->
                     \* "constructed", "partial" or "loaded"
    proc,            \* position and local new_model of the /model/reload
                     \* handler and of the training worker
    training_status, \* the global training_status: [is_training, status,
                     \* finished_at]
    observed,        \* what the last request handler found behind `model`
    \* --- predict: round_to_nearest_5 and the crowd level ---
    post_in,         \* the values handed to the post-processing
    post_out,        \* what it returned, or NotCalled
    \* --- features / predict: regional holiday flags ---
    holidays_df,     \* the rows fetch_holidays returns
    park_info,       \* the park's row of parks_metadata
    training_flags,  \* holiday columns add_holiday_features wrote, or NotCalled
    inference_flags, \* holiday columns create_prediction_features wrote
    \* --- data_validation: outlier step ---
    raw_df,          \* the batch handed to validate_training_data
    cleaned_df,      \* the batch after the outlier step, or NotCalled
    \* --- main: the /predict endpoint ---
    http_request,    \* the PredictionRequest being handled
    http_response,   \* the response or HTTP error, or NotCalled
    \* --- predict / features: live context overrides ---
    feature_context, \* the featureContext of the request
    schedule_db,     \* what the schedule_entries lookup of the fallback finds
    context_features, \* the context columns of the followed row, or NotCalled
    \* --- db.fetch_parks_metadata: the cached parks table ---
    clock,           \* time.time(), in seconds
    parks_table,     \* the version of the parks table in the database
    parks_metadata_cache,      \* _parks_metadata_cache: None or a table
    parks_metadata_cache_time, \* _parks_metadata_cache_time: None or a time
    fetched,         \* what the last call of fetch_parks_metadata returned
    \* --- main: the /predict handler beside the training worker ---
    versions,        \* the version attribute of the objects of the heap
    predict_call,    \* position and predictions of the /predict handler
    served           \* the last /predict response, or NotCalled

holVars == <<date, holiday_map, holiday_info>>

histVars == <<batch, hist_df>>

schemaVars == <<metadata, model, model_feature_columns, X, regressor_input>>

predVars == <<schedule_entries, tz_offset, request, regressor, features_df,
              results, pc, train_batch, train_df>>

filterVars == <<parks_metadata, filtered>>

lagVars == <<lag_request, recent_data, lag_df>>

swapVars == <<global_model, heap, proc, training_status, observed>>

postVars == <<post_in, post_out>>

regionVars == <<holidays_df, park_info, training_flags, inference_flags>>

validationVars == <<raw_df, cleaned_df>>

endpointVars == <<http_request, http_response>>

contextVars == <<feature_context, schedule_db, context_features>>

cacheVars == <<clock, parks_table, parks_metadata_cache,
               parks_metadata_cache_time, fetched>>

serveVars == <<versions, predict_call, served>>

ext10Vars == <<serveVars>>

ext9Vars == <<cacheVars, ext10Vars>>

ext8Vars == <<contextVars, ext9Vars>>

ext7Vars == <<endpointVars, ext8Vars>>

ext6Vars == <<validationVars, ext7Vars>>

ext5Vars == <<regionVars, ext6Vars>>

ext4Vars == <<postVars, ext5Vars>>

ext3Vars == <<swapVars, ext4Vars>>

ext2Vars == <<lagVars, ext3Vars>>

extVars == <<filterVars, ext2Vars>>

vars == <<holVars, histVars, schemaVars, predVars, extVars>>

NotCalled == [called |-> FALSE]

(***************************************************************************)
(* holiday_utils.py                                                        *)
(***************************************************************************)

\* Last day number a date is drawn from (every weekday occurs in 0..6).
MaxDate == 6

\* A value of the holiday map.  Python values are strings or dicts; both are
\* written as records of one shape so that they can be compared:
\*   kind = "absent"  the key is not in the dict (dict.get gives None)
\*   kind = "str"     a string, text is the string ("" is the empty string)
\*   kind = "dict"    a dict; hastype says whether it has a "type" key, type
\*                    is its value; text is its "name"; empty marks {}
Absent == [kind |-> "absent", text |-> "", hastype |-> FALSE, type |-> "", empty |-> FALSE]

StrVal(s) == [kind |-> "str", text |-> s, hastype |-> FALSE, type |-> "", empty |-> FALSE]

DictVal(t) == [kind |-> "dict", text |-> "N", hastype |-> TRUE, type |-> t, empty |-> FALSE]

DictNoType == [kind |-> "dict", text |-> "N", hastype |-> FALSE, type |-> "", empty |-> FALSE]

EmptyDict == [kind |-> "dict", text |-> "", hastype |-> FALSE, type |-> "", empty |-> TRUE]

HolidayValues ==
    {Absent, EmptyDict, DictNoType}
      \cup {StrVal(s) : s \in {"school", "public", "bank", "Christmas Day", ""}}
      \cup {DictVal(t) : t \in {"school", "public", "observance"}}

\* datetime.weekday(): 0 = Monday ... 6 = Sunday
weekday(d) == d % 7

\* holiday_map.get(date_str): the key of a date is its "%Y-%m-%d" string, one
\* string per calendar day, so a key is identified with the day number.
map_get(m, d) == IF d \in DOMAIN m THEN m[d] ELSE Absent

\* Python truth value of a map value: None, "" and {} are false.
truthy(v) ==
    CASE v.kind = "absent" -> FALSE
      [] v.kind = "str" -> v.text # ""
      [] OTHER -> ~v.empty

\* The type the weekend extension derives from Friday's entry.
friday_type(v) ==
    IF v.kind = "dict"
    THEN (IF v.hastype THEN v.type ELSE "public")
    ELSE IF v.text \in {"school", "public", "bank"} THEN v.text ELSE "public"

\* Mutant: every Friday holiday extends to the weekend.
friday_extends_any(v) == TRUE

friday_extends(v) == friday_type(v) = "school"

\* The name returned for an extended weekend.
extension_name(v) == IF v.kind = "str" THEN v ELSE StrVal(v.text)

\* Mutant: a school holiday counts as public.
is_public_holiday_ignoring_type(m, d) == truthy(map_get(m, d))

is_public_holiday(m, d) ==
    LET holiday_value == map_get(m, d)
    IN  IF ~truthy(holiday_value) THEN FALSE
        ELSE IF holiday_value.kind = "str"
             THEN (IF holiday_value.text \in {"public", "bank"} THEN TRUE
                   ELSE IF holiday_value.text = "school" THEN FALSE
                   ELSE TRUE)
             ELSE (IF holiday_value.hastype
                   THEN holiday_value.type \in {"public", "bank"}
                   ELSE TRUE)

\* The bridge-day candidate of lines 144-179, before the final override.
bridge_candidate(m, d) ==
    LET day_of_week == weekday(d)
    IN  CASE day_of_week = 4 -> is_public_holiday(m, d - 1)
          [] day_of_week = 0 -> is_public_holiday(m, d + 1)
          [] day_of_week \in {1, 2, 3} ->
                is_public_holiday(m, d - 1) /\ is_public_holiday(m, d + 1)
          [] OTHER -> FALSE

\* Mutant: the override is left out.
final_is_bridge_day_no_override(is_holiday, is_bridge_day) == is_bridge_day

final_is_bridge_day(is_holiday, is_bridge_day) ==
    IF is_holiday THEN FALSE ELSE is_bridge_day

calculate_holiday_info(d, m) ==
    LET direct == map_get(m, d)
        direct_holiday == direct.kind # "absent"
        day_of_week == weekday(d)
        days_back == IF day_of_week = 5 THEN 1 ELSE 2
        friday_holiday == map_get(m, d - days_back)
        extended ==
            /\ ~direct_holiday
            /\ day_of_week \in {5, 6}
            /\ truthy(friday_holiday)
            /\ friday_extends(friday_holiday)
        is_holiday == direct_holiday \/ extended
        holiday_name == IF extended THEN extension_name(friday_holiday) ELSE direct
    IN  [called |-> TRUE,
         is_holiday |-> is_holiday,
         holiday_name |-> holiday_name,
         is_bridge_day |-> final_is_bridge_day(is_holiday, bridge_candidate(m, d))]

NoRequest == [present |-> FALSE]

FilterIdle ==
    /\ parks_metadata = <<>>
    /\ filtered = NotCalled

LagIdle ==
    /\ lag_request = NoRequest
    /\ recent_data = {}
    /\ lag_df = <<>>

SwapIdle ==
    /\ global_model = 0
    /\ heap = <<>>
    /\ proc = <<>>
    /\ training_status = [is_training |-> FALSE, status |-> "idle",
                          finished_at |-> "None"]
    /\ observed = "unread"

PostIdle ==
    /\ post_in = NoRequest
    /\ post_out = NotCalled

RegionIdle ==
    /\ holidays_df = <<>>
    /\ park_info = NoRequest
    /\ training_flags = NotCalled
    /\ inference_flags = NotCalled

ValidationIdle ==
    /\ raw_df = <<>>
    /\ cleaned_df = NotCalled

EndpointIdle ==
    /\ http_request = NoRequest
    /\ http_response = NotCalled

ContextIdle ==
    /\ feature_context = NoRequest
    /\ schedule_db = NoRequest
    /\ context_features = NotCalled

NoTime == 0 - 1

CacheIdle ==
    /\ clock = 0
    /\ parks_table = 0
    /\ parks_metadata_cache = [present |-> FALSE]
    /\ parks_metadata_cache_time = NoTime
    /\ fetched = NotCalled

ServeIdle ==
    /\ versions = <<>>
    /\ predict_call = [at |-> "idle"]
    /\ served = NotCalled

Ext10Idle == ServeIdle

Ext9Idle == CacheIdle /\ Ext10Idle

Ext8Idle == ContextIdle /\ Ext9Idle

Ext7Idle == EndpointIdle /\ Ext8Idle

Ext6Idle == ValidationIdle /\ Ext7Idle

Ext5Idle == RegionIdle /\ Ext6Idle

Ext4Idle == PostIdle /\ Ext5Idle

Ext3Idle == SwapIdle /\ Ext4Idle

Ext2Idle == LagIdle /\ Ext3Idle

ExtIdle == FilterIdle /\ Ext2Idle

HistIdle ==
    /\ batch = {}
    /\ hist_df = <<>>

PredIdle ==
    /\ schedule_entries = {}
    /\ tz_offset = 0
    /\ request = NoRequest
    /\ regressor = [raw |-> 0, uncertainty_available |-> FALSE, uncertainty |-> 0]
    /\ features_df = <<>>
    /\ results = <<>>
    /\ pc = "idle"
    /\ train_batch = <<>>
    /\ train_df = <<>>

SchemaIdle ==
    /\ metadata = [present |-> FALSE, features_used |-> <<>>]
    /\ model = "None"
    /\ model_feature_columns = [set |-> FALSE, columns |-> <<>>]
    /\ X = <<>>
    /\ regressor_input = NotCalled

HolIdle ==
    /\ date = 0
    /\ holiday_map = [d \in {} |-> Absent]
    /\ holiday_info = NotCalled

\* The entries that can decide the result lie on the two days before the date,
\* on the date and on the day after it.
InitHoliday ==
    /\ date \in 0..MaxDate
    /\ holiday_map \in [(date - 2)..(date + 1) -> HolidayValues]
    /\ holiday_info = NotCalled
    /\ HistIdle
    /\ SchemaIdle
    /\ PredIdle
    /\ ExtIdle

CalculateHolidayInfo ==
    /\ holiday_info = NotCalled
    /\ holiday_info' = calculate_holiday_info(date, holiday_map)
    /\ UNCHANGED <<date, holiday_map, histVars, schemaVars, predVars, extVars>>

NextHoliday == CalculateHolidayInfo

SpecHoliday == InitHoliday /\ [][NextHoliday]_vars

(***************************************************************************)
(* Properties of calculate_holiday_info                                    *)
(***************************************************************************)

\* C1: for every date and holiday map the result never has is_holiday and
\* is_bridge_day both true, also when the date is a holiday by the weekend
\* extension.
C1_BridgeDayNeverHoliday ==
    holiday_info.called => ~(holiday_info.is_holiday /\ holiday_info.is_bridge_day)

\* A Friday that is a holiday itself while its Thursday is a public holiday:
\* the bridge rule matches and the override removes the flag.
C1_Witness ==
    /\ holiday_info.called
    /\ holiday_info.is_holiday
    /\ weekday(date) = 4
    /\ map_get(holiday_map, date - 1) = StrVal("Christmas Day")
    /\ ~holiday_info.is_bridge_day

\* An entry whose type is exactly "school": the string "school", or a dict
\* whose "type" is "school".
SchoolEntry(v) == v = StrVal("school") \/ v = DictVal("school")

PrecedingFriday(d) == IF weekday(d) = 5 THEN d - 1 ELSE d - 2

PublicEntry(v) ==
    \/ v.kind = "str" /\ v.text \notin {"", "school"}
    \/ v.kind = "dict" /\ ~v.empty /\ (v.hastype => v.type \in {"public", "bank"})

BridgeCase(m, d) ==
    \/ weekday(d) = 4 /\ PublicEntry(map_get(m, d - 1))
    \/ weekday(d) = 0 /\ PublicEntry(map_get(m, d + 1))
    \/ /\ weekday(d) \in {1, 2, 3}
       /\ PublicEntry(map_get(m, d - 1))
       /\ PublicEntry(map_get(m, d + 1))

\* C3: a date that is not a holiday is a bridge day exactly when it is a Friday
\* after a public Thursday holiday, a Monday before a public Tuesday holiday,
\* or a Tuesday, Wednesday or Thursday between two public holidays; school
\* holidays next to it make no bridge day and a weekend day is never one.
C3_BridgeDayCases ==
    (holiday_info.called /\ ~holiday_info.is_holiday)
    => /\ holiday_info.is_bridge_day <=> BridgeCase(holiday_map, date)
       /\ weekday(date) \in {5, 6} => ~holiday_info.is_bridge_day
       /\ (/\ SchoolEntry(map_get(holiday_map, date - 1))
           /\ SchoolEntry(map_get(holiday_map, date + 1)))
          => ~holiday_info.is_bridge_day

\* A Wednesday between a public Tuesday and a public Thursday.
C3_Witness ==
    /\ holiday_info.called
    /\ weekday(date) = 2
    /\ ~holiday_info.is_holiday
    /\ map_get(holiday_map, date - 1) = StrVal("public")
    /\ map_get(holiday_map, date + 1) = DictVal("public")
    /\ holiday_info.is_bridge_day

(***************************************************************************)
(* features.py: add_historical_features, the rolling means                 *)
(***************************************************************************)

\* Most rows of a batch, and the number of attractions (ids 1..NumAttractions;
\* the order of the ids is the sort order of the attractionId strings).
MaxRows == 4

NumAttractions == 2

\* The windows "1h", "24h" and "7d", in minutes.
Window1h == 60

Window24h == 1440

Window7d == 10080

\* Timestamps (minutes) that separate the three windows of a row at 10080:
\* 10050 lies in its last hour, 8700 in its last 24 hours, 0 is the first
\* instant of its last 7 days.
HistTimes == {0, 8700, 10050, 10080}

HistWaits == {10, 100}

HistRows == [attractionId : 1..NumAttractions, timestamp : HistTimes, waitTime : HistWaits]

RECURSIVE SumWait(_)
SumWait(rows) ==
    IF rows = {} THEN 0
    ELSE LET r == CHOOSE x \in rows : TRUE
         IN  r.waitTime + SumWait(rows \ {r})

\* A mean is kept exact as its sum and its number of values; n = 0 is NaN
\* (min_periods = 1 and no value in the window).
MeanOf(rows) == [sum |-> SumWait(rows), n |-> Cardinality(rows)]

SameMean(a, b) ==
    /\ (a.n = 0) <=> (b.n = 0)
    /\ a.sum * b.n = b.sum * a.n

\* df.sort_values("timestamp"): the rows in an order of non-decreasing
\* timestamps; the order of rows with equal timestamps is left open (the
\* default sort is not stable).
sort_values_timestamp(rows) ==
    {s \in [1..Cardinality(rows) -> rows] :
        /\ \A i, j \in DOMAIN s : i # j => s[i] # s[j]
        /\ \A i, j \in DOMAIN s : i < j => s[i].timestamp <= s[j].timestamp}

\* The rows of one attraction, in the order of the table.
group_of(df, a) == SelectSeq(df, LAMBDA r : r.attractionId = a)

\* .rolling(w, closed="left", min_periods=1).mean() within one group: for
\* each row of the group the mean over the group's rows in [t - w, t).
rolling_mean(group, w) ==
    [i \in DOMAIN group |->
        MeanOf({group[j] : j \in {k \in DOMAIN group :
                    /\ group[k].timestamp >= group[i].timestamp - w
                    /\ group[k].timestamp < group[i].timestamp}})]

\* groupby("attractionId")[...].rolling(...).mean(): the groups follow one
\* another in the order of their keys, each in the order of the table.
RECURSIVE groupby_rolling(_, _, _)
groupby_rolling(df, w, a) ==
    IF a > NumAttractions THEN <<>>
    ELSE rolling_mean(group_of(df, a), w) \o groupby_rolling(df, w, a + 1)

\* df[col] = (...).reset_index(level=0, drop=True).values: the values are
\* assigned by position to the table sorted by timestamp.
rolling_column(df, w) == groupby_rolling(df, w, 1)

\* ---- add_historical_features.calculate_trend_volatility -------------------

TrendSamples == 168            \* group.tail(168)
VOLATILITY_CAP_STD_MINUTES == 40

\* np.arange position of a row among the rows, which are taken in the order
\* of their timestamps
position_in(rows, r) == Cardinality({ q \in rows : q.timestamp < r.timestamp })

\* one term of the sums of the least-squares fit: x is the position, y the wait
term(all, r, kind) ==
    CASE kind = "x" -> position_in(all, r)
      [] kind = "xx" -> position_in(all, r) * position_in(all, r)
      [] kind = "y" -> r.waitTime
      [] kind = "xy" -> position_in(all, r) * r.waitTime
      [] kind = "yy" -> r.waitTime * r.waitTime

RECURSIVE SumOver(_, _, _)
SumOver(rows, all, kind) ==
    IF rows = {} THEN 0
    ELSE LET r == CHOOSE x \in rows : TRUE
         IN  term(all, r, kind) + SumOver(rows \ {r}, all, kind)

\* group.tail(168)
tail_rows(rows, count) ==
    { r \in rows : position_in(rows, r) >= Cardinality(rows) - count }

\* The slope as an exact fraction and the dampened volatility as the exact
\* fraction of min(std, cap) squared; log1p is increasing, so two dampened
\* values are equal exactly when these fractions are.
trend_volatility(recent_rows) ==
    LET n == Cardinality(recent_rows)
        sx == SumOver(recent_rows, recent_rows, "x")
        sxx == SumOver(recent_rows, recent_rows, "xx")
        sy == SumOver(recent_rows, recent_rows, "y")
        sxy == SumOver(recent_rows, recent_rows, "xy")
        syy == SumOver(recent_rows, recent_rows, "yy")
        var_num == n * syy - sy * sy
        cap2 == VOLATILITY_CAP_STD_MINUTES * VOLATILITY_CAP_STD_MINUTES
    IN  IF n < 2
        THEN [trend_7d |-> [num |-> 0, den |-> 1],
              volatility_7d |-> [num |-> 0, den |-> 1]]
        ELSE [trend_7d |-> [num |-> n * sxy - sx * sy, den |-> n * sxx - sx * sx],
              volatility_7d |->
                  IF var_num > cap2 * n * n THEN [num |-> cap2, den |-> 1]
                  ELSE [num |-> var_num, den |-> n * n]]

\* One value per group, computed from the group's last rows and written to
\* every row of the group ([slope] * len(group)).
calculate_trend_volatility(group) ==
    trend_volatility(tail_rows(group, TrendSamples))

group_rows(df, a) == { df[j] : j \in { k \in DOMAIN df : df[k].attractionId = a } }

add_historical_features(df) ==
    LET c1h == rolling_column(df, Window1h)
        c24h == rolling_column(df, Window24h)
        c7d == rolling_column(df, Window7d)
    IN  [i \in DOMAIN df |->
            [attractionId |-> df[i].attractionId,
             timestamp |-> df[i].timestamp,
             waitTime |-> df[i].waitTime,
             avg_wait_last_1h |-> c1h[i],
             avg_wait_last_24h |-> c24h[i],
             rolling_avg_7d |-> c7d[i],
             trend_7d |->
                 calculate_trend_volatility(
                     group_rows(df, df[i].attractionId)).trend_7d,
             volatility_7d |->
                 calculate_trend_volatility(
                     group_rows(df, df[i].attractionId)).volatility_7d]]

\* A batch holds one row for an attraction and a timestamp (the validator
\* removes duplicates).
InitHistorical ==
    /\ batch \in {b \in SUBSET HistRows :
                    /\ Cardinality(b) <= MaxRows
                    /\ \A r1, r2 \in b :
                         (r1.attractionId = r2.attractionId
                            /\ r1.timestamp = r2.timestamp) => r1 = r2}
    /\ hist_df = <<>>
    /\ HolIdle
    /\ SchemaIdle
    /\ PredIdle
    /\ ExtIdle

AddHistoricalFeatures ==
    /\ hist_df = <<>>
    /\ batch # {}
    /\ \E df \in sort_values_timestamp(batch) :
          hist_df' = add_historical_features(df)
    /\ UNCHANGED <<batch, holVars, schemaVars, predVars, extVars>>

NextHistorical == AddHistoricalFeatures

SpecHistorical == InitHistorical /\ [][NextHistorical]_vars

\* The mean of the attraction's own waits in [t - w, t).
WindowMean(a, t, w) ==
    MeanOf({r \in batch : /\ r.attractionId = a
                          /\ r.timestamp >= t - w
                          /\ r.timestamp < t})

\* C4: for every row (a, t) the three rolling columns, before fallback
\* filling, are the means of a's own waits in [t-1h, t), [t-24h, t) and
\* [t-7d, t); the wait at t and the waits of other attractions never count.
C4_RollingWindowsOwnPast ==
    \A i \in DOMAIN hist_df :
        LET r == hist_df[i]
        IN  /\ SameMean(r.avg_wait_last_1h, WindowMean(r.attractionId, r.timestamp, Window1h))
            /\ SameMean(r.avg_wait_last_24h, WindowMean(r.attractionId, r.timestamp, Window24h))
            /\ SameMean(r.rolling_avg_7d, WindowMean(r.attractionId, r.timestamp, Window7d))

\* The same statement for batches of one attraction.
C4_SingleAttraction ==
    (\A r1, r2 \in batch : r1.attractionId = r2.attractionId)
        => C4_RollingWindowsOwnPast

(***************************************************************************)
(* model.py: WaitTimeModel.load, predict, predict_with_uncertainty         *)
(***************************************************************************)

\* Longest persisted feature list and widest input table of the model.
MaxPersisted == 3

MaxColumns == 2

\* get_feature_columns(), cut down to the identifiers, one numeric feature and
\* the two categorical features that are not identifiers, in its order.
feature_columns == <<"parkId", "attractionId", "hour", "weatherCode", "attraction_type">>

\* get_categorical_features()
categorical_features == {"parkId", "attractionId", "weatherCode", "attraction_type"}

IdentifierColumns == {"parkId", "attractionId"}

\* Names a persisted list can hold: the current features and one feature of
\* an older version that the current code no longer computes.
PersistableFeatures == {"parkId", "attractionId", "hour", "weatherCode",
                        "attraction_type", "legacy_feature"}

\* Names an input table can hold: those, and one column no model knows.
InputColumns == PersistableFeatures \cup {"timestamp"}

\* The place of a name in sorted(missing_cols) (string order).
sort_rank(name) ==
    CASE name = "attractionId" -> 1
      [] name = "attraction_type" -> 2
      [] name = "hour" -> 3
      [] name = "legacy_feature" -> 4
      [] name = "parkId" -> 5
      [] name = "timestamp" -> 6
      [] OTHER -> 7

\* A value present in the caller's table.
FromInput == "input"

\* _get_default_feature_values(): the entries of the modelled features;
\* has_default says whether the dict holds the key.
has_default(name) == name \in {"parkId", "attractionId", "hour", "weatherCode", "attraction_type"}

defaults(name) ==
    CASE name = "parkId" -> "UNKNOWN_PARK"
      [] name = "attractionId" -> "UNKNOWN_ATTRACTION"
      [] name = "hour" -> "12"
      [] name = "weatherCode" -> "0"
      [] name = "attraction_type" -> "UNKNOWN"
      [] OTHER -> "None"

\* defaults.get(col, fallback)
defaults_get(name, fallback) == IF has_default(name) THEN defaults(name) ELSE fallback

\* The default predict() inserts for a missing column (lines 372-383).
predict_default(col) ==
    IF col \in IdentifierColumns THEN defaults_get(col, "UNKNOWN")
    ELSE IF col \in categorical_features THEN defaults_get(col, "UNKNOWN")
    ELSE defaults_get(col, "0.0")

\* The default predict_with_uncertainty() inserts (lines 430-432).
uncertainty_default(col) == defaults_get(col, "0.0")

Range(seq) == {seq[i] : i \in DOMAIN seq}

Injective(seq) == \A i, j \in DOMAIN seq : i # j => seq[i] # seq[j]

InjectiveSeqs(S, n) ==
    UNION {{q \in [1..k -> S] : Injective(q)} : k \in 0..n}

column_names(table) == [i \in DOMAIN table |-> table[i].name]

column_set(table) == {table[i].name : i \in DOMAIN table}

\* self.model_feature_columns or self.feature_columns
model_features ==
    IF model_feature_columns.set /\ model_feature_columns.columns # <<>>
    THEN model_feature_columns.columns
    ELSE feature_columns

\* The orders in which `for col in <cols>: X[col] = default` can append the
\* missing columns: sorted(missing_cols) in predict, the iteration order of a
\* set, which is any order, in predict_with_uncertainty.
append_orders(missing, sorted_order) ==
    {q \in [1..Cardinality(missing) -> missing] :
        /\ Injective(q)
        /\ sorted_order => \A i, j \in DOMAIN q : i < j => sort_rank(q[i]) < sort_rank(q[j])}

\* Mutant: the table is handed on as it is, without selecting the columns.
select_columns_unordered(table, names) == table

\* X[model_features]: the named columns, in the order of the names.
select_columns(table, names) ==
    [i \in DOMAIN names |->
        table[CHOOSE k \in DOMAIN table : table[k].name = names[i]]]

\* The persisted list is the feature list of the training run that wrote it:
\* non-empty and without repetition.
InitSchema ==
    /\ metadata \in
         {[present |-> FALSE, features_used |-> <<>>]}
           \cup {[present |-> TRUE, features_used |-> f] :
                    f \in InjectiveSeqs(PersistableFeatures, MaxPersisted) \ {<<>>}}
    /\ model = "None"
    /\ model_feature_columns = [set |-> FALSE, columns |-> <<>>]
    /\ X \in {[i \in DOMAIN q |-> [name |-> q[i], value |-> FromInput]] :
                q \in InjectiveSeqs(InputColumns, MaxColumns)}
    /\ regressor_input = NotCalled
    /\ HolIdle
    /\ HistIdle
    /\ PredIdle
    /\ ExtIdle

\* load(): lines 192-251.
Load ==
    /\ model = "None"
    /\ model' = "loaded"
    /\ model_feature_columns' =
         IF metadata.present
         THEN [set |-> TRUE, columns |-> metadata.features_used]
         ELSE [set |-> TRUE, columns |-> feature_columns]
    /\ UNCHANGED <<metadata, X, regressor_input, holVars, histVars, predVars, extVars>>

\* train() followed by save(): the metadata records self.feature_columns;
\* model_feature_columns stays unset.
Train ==
    /\ model = "None"
    /\ ~metadata.present
    /\ model' = "trained"
    /\ metadata' = [present |-> TRUE, features_used |-> feature_columns]
    /\ UNCHANGED <<model_feature_columns, X, regressor_input, holVars, histVars, predVars, extVars>>

\* predict(): lines 337-404.  The caller's table is filled in place.
Predict ==
    /\ model # "None"
    /\ LET missing_cols == Range(model_features) \ column_set(X)
       IN  \E order \in append_orders(missing_cols, TRUE) :
             LET filled == X \o [i \in DOMAIN order |->
                                   [name |-> order[i], value |-> predict_default(order[i])]]
             IN  /\ X' = filled
                 /\ regressor_input' =
                      [called |-> TRUE, via |-> "predict",
                       table |-> select_columns(filled, model_features)]
    /\ UNCHANGED <<metadata, model, model_feature_columns, holVars, histVars, predVars, extVars>>

\* predict_with_uncertainty(): lines 406-460.
PredictWithUncertainty ==
    /\ model # "None"
    /\ LET missing_cols == Range(model_features) \ column_set(X)
       IN  \E order \in append_orders(missing_cols, FALSE) :
             LET filled == X \o [i \in DOMAIN order |->
                                   [name |-> order[i], value |-> uncertainty_default(order[i])]]
             IN  /\ X' = filled
                 /\ regressor_input' =
                      [called |-> TRUE, via |-> "predict_with_uncertainty",
                       table |-> select_columns(filled, model_features)]
    /\ UNCHANGED <<metadata, model, model_feature_columns, holVars, histVars, predVars, extVars>>

NextSchema == Load \/ Train \/ Predict \/ PredictWithUncertainty

SpecSchema == InitSchema /\ [][NextSchema]_vars

(***************************************************************************)
(* Properties of the schema reconciliation                                 *)
(***************************************************************************)

\* C5: predict hands the regressor a table whose columns are exactly the
\* persisted training-time feature list, in the persisted order, whatever the
\* columns of the input table and their order are.
C5_RegressorGetsPersistedColumns ==
    (/\ regressor_input.called
     /\ regressor_input.via = "predict"
     /\ metadata.present)
    => column_names(regressor_input.table) = metadata.features_used

\* The input holds a column the model does not know, lacks two persisted
\* columns and holds parkId ahead of the place the persisted list gives it.
C5_Witness ==
    /\ regressor_input.called
    /\ regressor_input.via = "predict"
    /\ metadata.present
    /\ metadata.features_used = <<"hour", "legacy_feature", "parkId">>
    /\ Len(X) = 4
    /\ X[1] = [name |-> "parkId", value |-> FromInput]
    /\ X[2] = [name |-> "timestamp", value |-> FromInput]
    /\ regressor_input.table[2] = [name |-> "legacy_feature", value |-> "0.0"]

\* C6: an identifier column (parkId, attractionId) is never filled with a
\* default and handed to the regressor; a prediction whose input lacks a
\* persisted identifier fails instead.
C6_IdentifierNeverDefaulted ==
    (regressor_input.called /\ metadata.present)
    => \A i \in DOMAIN regressor_input.table :
          regressor_input.table[i].name \in IdentifierColumns
            => regressor_input.table[i].value = FromInput

\* C7: a persisted categorical feature that is no identifier and is absent
\* from the input is inserted as the sentinel "UNKNOWN", by predict and by
\* predict_with_uncertainty alike.
C7_CategoricalDefaultUnknown ==
    (regressor_input.called /\ metadata.present)
    => \A i \in DOMAIN regressor_input.table :
          (/\ regressor_input.table[i].name \in categorical_features \ IdentifierColumns
           /\ regressor_input.table[i].value # FromInput)
            => regressor_input.table[i].value = "UNKNOWN"

(***************************************************************************)
(* Schedule resolution and result assembly                                 *)
(*   predict.py: generate_future_timestamps, create_prediction_features,   *)
(*               round_to_nearest_5, predict_wait_times                    *)
(*   features.py: convert_to_local_time, add_park_schedule_features        *)
(*                                                                         *)
(* An instant is a number of half hours since midnight UTC of day 0, a     *)
(* calendar date is a day number, and a day has 48 half hours.  A wait     *)
(* in minutes is an integer; the regressor's answer is in tenths of a      *)
(* minute.  A confidence is kept in 3200ths of a percent (a half hour of   *)
(* a daily forecast costs 0.15 / 48 = 1 / 320 percent) until it is rounded *)
(* to tenths of a percent.                                                 *)
(***************************************************************************)

NumTimestamps == 2   \* stands for HOURLY_PREDICTIONS / DAILY_PREDICTIONS
MaxEntries == 3      \* rows of the schedule_entries table
MaxTrainRows == 2    \* rows of a training batch

Attractions == {"a1", "a2", "a3"}

park_of(a) == IF a = "a3" THEN "p2" ELSE "p1"

TzOffsets == {0, 4}

BaseTimes == {18, 35, 46}

ParkLevel == "nan"   \* attractionId of a park-level entry after fillna("nan")

ScheduleEntry(p, a, d, t, timed, tz) ==
    [parkId |-> p, attractionId |-> a, date |-> d, scheduleType |-> t,
     has_times |-> timed,
     openingTime |-> IF timed THEN 48 * d + 20 - tz ELSE 0,
     closingTime |-> IF timed THEN 48 * d + 36 - tz ELSE 0]

\* The rows the schedule_entries table may hold: local 10:00 to 18:00
\* operating hours, events, and attraction-level entries.
ScheduleUniverse(tz) ==
    { ScheduleEntry("p1", ParkLevel, 0, "OPERATING", TRUE, tz),
      ScheduleEntry("p1", ParkLevel, 1, "OPERATING", TRUE, tz),
      ScheduleEntry("p2", ParkLevel, 0, "OPERATING", TRUE, tz),
      ScheduleEntry("p1", ParkLevel, 0, "TICKETED_EVENT", FALSE, tz),
      ScheduleEntry("p1", ParkLevel, 1, "EXTRA_HOURS", TRUE, tz),
      ScheduleEntry("p1", "a1", 0, "MAINTENANCE", FALSE, tz),
      ScheduleEntry("p1", "a1", 1, "CLOSED", FALSE, tz),
      ScheduleEntry("p1", "a1", 0, "INFO", FALSE, tz),
      ScheduleEntry("p1", "a2", 1, "MAINTENANCE", FALSE, tz) }

EmptyDict_cw == [a \in {} |-> 0]

CurrentWaitTimes == { EmptyDict_cw, [a \in {"a1"} |-> 0], [a \in {"a1"} |-> 20] }

RequestedAttractions == { <<"a1">>, <<"a1", "a2">>, <<"a3", "a1">> }

RegressorAnswers ==
    { [raw |-> -10, uncertainty_available |-> FALSE, uncertainty |-> 0],
      [raw |-> 24,  uncertainty_available |-> TRUE,  uncertainty |-> 10],
      [raw |-> 330, uncertainty_available |-> TRUE,  uncertainty |-> 10],
      [raw |-> 330, uncertainty_available |-> FALSE, uncertainty |-> 0],
      [raw |-> 674, uncertainty_available |-> TRUE,  uncertainty |-> 90] }

Baselines == { [given |-> FALSE, value |-> 0], [given |-> TRUE, value |-> 20] }

Max(a, b) == IF a >= b THEN a ELSE b

Min(a, b) == IF a <= b THEN a ELSE b

\* ---- features.convert_to_local_time --------------------------------------
convert_to_local_time(ts) == ts + tz_offset

local_date(ts) == convert_to_local_time(ts) \div 48

\* ---- predict.generate_future_timestamps ----------------------------------
generate_future_timestamps(base_time, prediction_type) ==
    IF prediction_type = "hourly"
    THEN LET rounded_base == IF base_time % 2 = 0 THEN base_time ELSE base_time + 1
         IN  [i \in 1..NumTimestamps |-> rounded_base + 2 * (i - 1)]
    ELSE [i \in 1..NumTimestamps |-> ((base_time + 48 * i) \div 48) * 48 + 28]

\* ---- predict.round_to_nearest_5 (argument in tenths of a minute) ---------
round_to_nearest_5_half_down(value10) ==
    IF value10 <= 25 THEN 0 ELSE ((value10 + 24) \div 50) * 5

round_to_nearest_5(value10) ==
    IF value10 < 25 THEN 0 ELSE ((value10 + 25) \div 50) * 5

\* ---- predict.create_prediction_features ----------------------------------

\* The base table: one row per (attraction, park) pair and timestamp, in the
\* order of zip(attraction_ids, park_ids) and then of the timestamps.
base_rows(attraction_ids, park_ids, timestamps) ==
    LET pairs == Min(Len(attraction_ids), Len(park_ids))
        n == Len(timestamps)
    IN  [k \in 1..(pairs * n) |->
            [attractionId |-> attraction_ids[((k - 1) \div n) + 1],
             parkId       |-> park_ids[((k - 1) \div n) + 1],
             timestamp    |-> timestamps[((k - 1) % n) + 1]]]

RowDates(rows) == { local_date(rows[k].timestamp) : k \in DOMAIN rows }

SetMin(S) == CHOOSE x \in S : \A y \in S : x <= y

SetMax(S) == CHOOSE x \in S : \A y \in S : x >= y

QueriedTypes == {"MAINTENANCE", "CLOSED", "INFO", "TICKETED_EVENT", "PRIVATE_EVENT"}

\* The schedule query: the requested parks, the local dates of the rows, and
\* entries with both times or of one of the listed types.
schedule_query(park_ids, start_date, end_date) ==
    { e \in schedule_entries :
        /\ e.parkId \in Range(park_ids)
        /\ start_date <= e.date /\ e.date <= end_date
        /\ (e.has_times \/ e.scheduleType \in QueriedTypes) }

\* An attraction-level MAINTENANCE or CLOSED entry closes the attraction.
attraction_closed_ignored(attr_schedules) == FALSE

attraction_closed(attr_schedules) ==
    \E e \in attr_schedules : e.scheduleType \in {"MAINTENANCE", "CLOSED"}

\* The body of the row loop: the schedule state of one row.
schedule_state(row, schedules_df) ==
    LET date_only == local_date(row.timestamp)
        park_schedules == { e \in schedules_df :
                              e.parkId = row.parkId /\ e.date = date_only }
        global_schedules == { e \in park_schedules :
                                e.attractionId \in {"nan", "None"} }
        operating == { e \in global_schedules : e.scheduleType = "OPERATING" }
        first == CHOOSE e \in operating : TRUE
        is_open == first.openingTime <= row.timestamp
                     /\ row.timestamp <= first.closingTime
        attr_schedules == { e \in park_schedules :
                              e.attractionId = row.attractionId }
        park_status == IF operating # {} /\ ~is_open THEN "CLOSED" ELSE "OPERATING"
    IN  [is_park_open |-> IF operating # {} /\ ~is_open THEN 0 ELSE 1,
         has_special_event |->
            IF \E e \in global_schedules :
                  e.scheduleType \in {"TICKETED_EVENT", "PRIVATE_EVENT"}
            THEN 1 ELSE 0,
         has_extra_hours |->
            IF \E e \in global_schedules : e.scheduleType = "EXTRA_HOURS"
            THEN 1 ELSE 0,
         status |-> IF attraction_closed(attr_schedules)
                    THEN "CLOSED" ELSE park_status]

create_prediction_features(attraction_ids, park_ids, timestamps) ==
    LET rows == base_rows(attraction_ids, park_ids, timestamps)
        schedules_df == schedule_query(park_ids, SetMin(RowDates(rows)),
                                       SetMax(RowDates(rows)))
    IN  [k \in DOMAIN rows |->
            LET st == schedule_state(rows[k], schedules_df)
            IN  [attractionId |-> rows[k].attractionId,
                 parkId |-> rows[k].parkId,
                 timestamp |-> rows[k].timestamp,
                 is_park_open |-> st.is_park_open,
                 has_special_event |-> st.has_special_event,
                 has_extra_hours |-> st.has_extra_hours,
                 status |-> st.status,
                 rolling_avg_7d |-> 32]]

\* ---- predict.predict_wait_times ------------------------------------------

\* hh: half hours between base_time and the row's timestamp.
time_confidence(prediction_type, hh) ==
    IF prediction_type = "hourly"
    THEN Max(50 * 3200, 95 * 3200 - 3200 * hh)
    ELSE Max(30 * 3200, 85 * 3200 - 10 * hh)

model_confidence(use_uncertainty, uncertainty, pred_wait, time_conf) ==
    IF use_uncertainty /\ pred_wait > 0
    THEN IF uncertainty >= Max(pred_wait, 1)
         THEN 30 * 3200
         ELSE Max(30 * 3200,
                  (100 * 3200 * (Max(pred_wait, 1) - uncertainty))
                     \div Max(pred_wait, 1))
    ELSE time_conf

\* round(confidence, 1) of 0.6 * time + 0.4 * model, in tenths of a percent.
rounded_confidence(time_conf, model_conf) ==
    LET c == 6 * time_conf + 4 * model_conf
        q == c \div 3200
        r == c % 3200
    IN  IF r > 1600 THEN q + 1
        ELSE IF r < 1600 THEN q
        ELSE IF q % 2 = 0 THEN q ELSE q + 1

baseline_of(p50_baseline, row) ==
    IF p50_baseline.given /\ p50_baseline.value > 0
    THEN p50_baseline.value
    ELSE row.rolling_avg_7d

crowd_level_low_after_moderate(pred_wait, baseline) ==
    LET occupancy == IF baseline > 0 THEN 100 * pred_wait ELSE 100
        unit == IF baseline > 0 THEN baseline ELSE 1
    IN  IF occupancy <= 50 * unit THEN "very_low"
        ELSE IF occupancy <= 79 * unit THEN "moderate"
        ELSE IF occupancy <= 120 * unit THEN "low"
        ELSE IF occupancy <= 170 * unit THEN "high"
        ELSE IF occupancy <= 250 * unit THEN "very_high"
        ELSE "extreme"

crowd_level(pred_wait, baseline) ==
    LET occupancy == IF baseline > 0 THEN 100 * pred_wait ELSE 100
        unit == IF baseline > 0 THEN baseline ELSE 1
    IN  IF occupancy <= 50 * unit THEN "very_low"
        ELSE IF occupancy <= 79 * unit THEN "low"
        ELSE IF occupancy <= 120 * unit THEN "moderate"
        ELSE IF occupancy <= 170 * unit THEN "high"
        ELSE IF occupancy <= 250 * unit THEN "very_high"
        ELSE "extreme"

trend_of(diff) ==
    IF diff > 5 THEN "increasing"
    ELSE IF diff < -5 THEN "decreasing"
    ELSE "stable"

\* The trend of the entry just appended, given the entries before it.
trend(pred_wait, attraction, current_wait_times, previous) ==
    IF current_wait_times # EmptyDict_cw /\ attraction \in DOMAIN current_wait_times
    THEN trend_of(pred_wait - current_wait_times[attraction])
    ELSE IF Len(previous) > 0 /\ previous[Len(previous)].attractionId = attraction
    THEN trend_of(pred_wait - previous[Len(previous)].predictedWaitTime)
    ELSE "stable"

\* row["timestamp"].isoformat() of a UTC timestamp: the wall-clock reading
\* followed by the offset.
isoformat(ts) == [wall |-> ts, utcoffset |-> "+00:00"]

\* The last step of the loop body: a row resolved as CLOSED is forced.
closed_override_skipped(result, status) == result

closed_override(result, status) ==
    IF status = "CLOSED"
    THEN [result EXCEPT !.predictedWaitTime = 0,
                        !.confidence = 1000,
                        !.crowdLevel = "closed"]
    ELSE result

format_row(row, req, reg, previous) ==
    LET pred_wait == round_to_nearest_5(Max(reg.raw, 0))
        hh == row.timestamp - req.base_time
        time_conf == time_confidence(req.prediction_type, hh)
        model_conf == model_confidence(reg.uncertainty_available,
                                       reg.uncertainty, pred_wait, time_conf)
        baseline == baseline_of(req.p50_baseline, row)
        result == [attractionId |-> row.attractionId,
                   parkId |-> row.parkId,
                   predictedTime |-> isoformat(row.timestamp),
                   predictedWaitTime |-> pred_wait,
                   predictionType |-> req.prediction_type,
                   confidence |-> rounded_confidence(time_conf, model_conf),
                   crowdLevel |-> crowd_level(pred_wait, baseline),
                   baseline |-> baseline,
                   status |-> row.status,
                   trend |-> trend(pred_wait, row.attractionId,
                                   req.current_wait_times, previous)]
    IN  closed_override(result, row.status)

RECURSIVE format_results(_, _, _, _)
format_results(df, k, req, reg) ==
    IF k = 0 THEN <<>>
    ELSE LET previous == format_results(df, k - 1, req, reg)
         IN  Append(previous, format_row(df[k], req, reg, previous))

\* ---- features.add_park_schedule_features (training) ----------------------

fetch_park_schedules(start_date, end_date) ==
    { e \in schedule_entries :
        /\ start_date <= e.date /\ e.date <= end_date
        /\ (e.has_times \/ e.scheduleType \in QueriedTypes) }

\* df.loc[mask_open.index, "is_park_open"] = 1 addresses the rows by the
\* labels of the mask, which are the labels of every row of the table.
schedule_marks_open(df, schedules_df) ==
    LET null_level == { e \in schedules_df : e.attractionId = ParkLevel }
        park_schedules == IF null_level = {} THEN schedules_df ELSE null_level
        operating_schedules == { e \in park_schedules :
                                   e.scheduleType = "OPERATING" }
    IN  [k \in DOMAIN df |-> IF operating_schedules # {} THEN 1 ELSE 0]

\* Training override: a positive target wait marks the row open.
training_override(is_park_open, waitTime) ==
    IF is_park_open = 0 /\ waitTime > 0 THEN 1 ELSE is_park_open

\* Minutes in a half hour, the unit of the timestamps.
MinutesPerStep == 30

\* NaN in time_since_park_open_mins
NaNMinutes == 0 - 1

\* Lines 1044-1050: minutes between the row and the opening time of the
\* OPERATING entry merged to it, clipped at 0; the assignment is aligned on
\* every row, so a row the merge found no entry for receives NaN.
schedule_time_since_open(row, schedules_df) ==
    LET null_level == { e \in schedules_df : e.attractionId = ParkLevel }
        park_schedules == IF null_level = {} THEN schedules_df ELSE null_level
        merged == { e \in park_schedules :
                      /\ e.scheduleType = "OPERATING"
                      /\ e.parkId = row.parkId
                      /\ e.date = local_date(row.timestamp) }
        operating_schedules == { e \in park_schedules :
                                   e.scheduleType = "OPERATING" }
    IN  IF operating_schedules = {} THEN 0
        ELSE IF merged = {} \/ ~(CHOOSE e \in merged : TRUE).has_times
             THEN NaNMinutes
        ELSE MinutesPerStep
               * Max(0, row.timestamp - (CHOOSE e \in merged : TRUE).openingTime)

add_park_schedule_features(df) ==
    LET dates == RowDates(df)
        schedules_df == fetch_park_schedules(SetMin(dates), SetMax(dates))
        marked == schedule_marks_open(df, schedules_df)
    IN  [k \in DOMAIN df |->
            [attractionId |-> df[k].attractionId,
             parkId |-> df[k].parkId,
             timestamp |-> df[k].timestamp,
             waitTime |-> df[k].waitTime,
             is_park_open |-> training_override(marked[k], df[k].waitTime),
             time_since_park_open_mins |->
                 schedule_time_since_open(df[k], schedules_df)]]

\* The maps of a feature context the features below read.
ContextKeys ==
    {"parkOccupancy", "parkOpeningTimes", "downtimeCache", "queueData",
     "parkHasSchedule"}

\* `if feature_context:`
context_truthy(ctx) ==
    ctx.present /\ \E k \in ContextKeys : ctx.maps[k] # "no_key"

\* `feature_context and "<key>" in feature_context`
has_key(ctx, k) == context_truthy(ctx) /\ ctx.maps[k] # "no_key"

SuppliedOpenMinutes == 30    \* minutes between parkOpeningTimes["p1"] and the row

add_time_since_park_open(ctx) ==
    IF has_key(ctx, "parkOpeningTimes")
        /\ ctx.maps["parkOpeningTimes"] = "supplied"
    THEN SuppliedOpenMinutes ELSE 0

\* The context steps of engineer_features (lines 1543-1550), called with
\* feature_context = None: add_time_since_park_open writes the column anew.
engineer_context_features(df) ==
    [k \in DOMAIN df |->
        [df[k] EXCEPT !.time_since_park_open_mins =
            add_time_since_park_open([present |-> FALSE])]]

\* ---- the state machine ---------------------------------------------------

Schedules(tz) ==
    { S \in SUBSET ScheduleUniverse(tz) : Cardinality(S) <= MaxEntries }

Requests ==
    { [present |-> TRUE,
       attraction_ids |-> ids,
       park_ids |-> [i \in DOMAIN ids |-> park_of(ids[i])],
       prediction_type |-> type,
       base_time |-> base,
       current_wait_times |-> cw,
       p50_baseline |-> p50] :
         ids \in RequestedAttractions, type \in {"hourly", "daily"},
         base \in BaseTimes, cw \in CurrentWaitTimes, p50 \in Baselines }

TrainingRows ==
    { [attractionId |-> "a1", parkId |-> "p1", timestamp |-> t, waitTime |-> w] :
        t \in {18, 36}, w \in {0, 20} }
    \cup { [attractionId |-> "a3", parkId |-> "p2", timestamp |-> 18, waitTime |-> 20] }

TrainingBatches ==
    UNION { [1..n -> TrainingRows] : n \in 1..MaxTrainRows }

InitInference ==
    /\ tz_offset \in TzOffsets
    /\ schedule_entries \in Schedules(tz_offset)
    /\ request \in Requests
    /\ regressor \in RegressorAnswers
    /\ features_df = <<>>
    /\ results = <<>>
    /\ pc = "request"
    /\ train_batch = <<>>
    /\ train_df = <<>>

InitTraining ==
    /\ tz_offset \in TzOffsets
    /\ schedule_entries \in Schedules(tz_offset)
    /\ request = NoRequest
    /\ regressor = [raw |-> 0, uncertainty_available |-> FALSE, uncertainty |-> 0]
    /\ features_df = <<>>
    /\ results = <<>>
    /\ pc = "training"
    /\ train_batch \in TrainingBatches
    /\ train_df = <<>>

InitPredict ==
    /\ InitInference \/ InitTraining
    /\ HolIdle
    /\ HistIdle
    /\ SchemaIdle
    /\ ExtIdle

\* predict_wait_times(model, attraction_ids, park_ids, prediction_type,
\*                    base_time, ..., current_wait_times, ..., p50_baseline)
PredictWaitTimes ==
    /\ pc = "request"
    /\ LET timestamps == generate_future_timestamps(request.base_time,
                                                    request.prediction_type)
           df == create_prediction_features(request.attraction_ids,
                                            request.park_ids, timestamps)
       IN  /\ features_df' = df
           /\ results' = format_results(df, Len(df), request, regressor)
    /\ pc' = "predicted"
    /\ UNCHANGED <<schedule_entries, tz_offset, request, regressor,
                   train_batch, train_df, holVars, histVars, schemaVars, extVars>>

\* engineer_features calling add_park_schedule_features on a training batch
AddParkScheduleFeatures ==
    /\ pc = "training"
    /\ train_df' = add_park_schedule_features(train_batch)
    /\ pc' = "trained"
    /\ UNCHANGED <<schedule_entries, tz_offset, request, regressor,
                   features_df, results, train_batch,
                   holVars, histVars, schemaVars, extVars>>

\* engineer_features continuing after the schedule step
EngineerContextFeatures ==
    /\ pc = "trained"
    /\ train_df' = engineer_context_features(train_df)
    /\ pc' = "engineered"
    /\ UNCHANGED <<schedule_entries, tz_offset, request, regressor,
                   features_df, results, train_batch,
                   holVars, histVars, schemaVars, extVars>>

NextPredict ==
    PredictWaitTimes \/ AddParkScheduleFeatures \/ EngineerContextFeatures

SpecPredict == InitPredict /\ [][NextPredict]_vars

(***************************************************************************)
(* Properties of the schedule resolution and the result assembly           *)
(***************************************************************************)

\* C8: every prediction predict_wait_times returns for a row whose resolved
\* status is CLOSED has predictedWaitTime 0, confidence 100 and crowdLevel
\* "closed", whatever the regressor answers, the uncertainty, the baseline
\* and the caller's current wait are.
C8_ClosedRowsForced ==
    \A i \in DOMAIN results :
        results[i].status = "CLOSED"
          => /\ results[i].predictedWaitTime = 0
             /\ results[i].confidence = 1000
             /\ results[i].crowdLevel = "closed"

\* A closed row of a1 although the regressor answers 33 minutes with an
\* uncertainty, the caller gives a baseline and a current wait of 20.
C8_Witness ==
    /\ pc = "predicted"
    /\ regressor.raw = 330
    /\ regressor.uncertainty_available
    /\ request.p50_baseline.given
    /\ request.current_wait_times = [a \in {"a1"} |-> 20]
    /\ \E i \in DOMAIN results :
          /\ results[i].attractionId = "a1"
          /\ results[i].status = "CLOSED"
          /\ results[i].predictedWaitTime = 0

\* The row's attraction has a MAINTENANCE or CLOSED entry on the row's
\* park-local date.
ClosureEntry(row) ==
    \E e \in schedule_entries :
        /\ e.parkId = row.parkId
        /\ e.attractionId = row.attractionId
        /\ e.date = local_date(row.timestamp)
        /\ e.scheduleType \in {"MAINTENANCE", "CLOSED"}

\* The park-level OPERATING entries of the row's park and local date.
OperatingEntries(row) ==
    { e \in schedule_entries :
        /\ e.parkId = row.parkId
        /\ e.attractionId = ParkLevel
        /\ e.date = local_date(row.timestamp)
        /\ e.scheduleType = "OPERATING" }

\* The park-level state of the row: open unless an OPERATING entry of its
\* park and date leaves its timestamp outside the operating hours.
ParkLevelOpen(row) ==
    \A e \in OperatingEntries(row) :
        e.openingTime <= row.timestamp /\ row.timestamp <= e.closingTime

\* C9: at inference every row of an attraction that has a MAINTENANCE or
\* CLOSED entry on the row's park-local date has status CLOSED, also when the
\* park's OPERATING entry says the park is open; every other row keeps the
\* park-level state.
C9_AttractionClosureOverridesPark ==
    \A k \in DOMAIN features_df :
        LET row == features_df[k]
        IN  /\ ClosureEntry(row) => row.status = "CLOSED"
            /\ ~ClosureEntry(row)
                 => /\ row.status = IF ParkLevelOpen(row) THEN "OPERATING" ELSE "CLOSED"
                    /\ row.is_park_open = IF ParkLevelOpen(row) THEN 1 ELSE 0

\* a1 is under maintenance on a day and at a time the park is open, and the
\* row of a2 for the same timestamp stays open.
C9_Witness ==
    \E k, j \in DOMAIN features_df :
        /\ features_df[k].attractionId = "a1"
        /\ ClosureEntry(features_df[k])
        /\ OperatingEntries(features_df[k]) # {}
        /\ ParkLevelOpen(features_df[k])
        /\ features_df[k].status = "CLOSED"
        /\ features_df[j].attractionId = "a2"
        /\ features_df[j].timestamp = features_df[k].timestamp
        /\ features_df[j].status = "OPERATING"
        /\ features_df[j].is_park_open = 1

\* The current wait the caller supplied for an attraction, 0 if none.
CallerWait(a) ==
    IF request.present /\ a \in DOMAIN request.current_wait_times
    THEN request.current_wait_times[a] ELSE 0

\* Training half of C10: a row whose actual wait is positive is open.
C10_TrainingPath ==
    \A k \in DOMAIN train_df :
        train_df[k].waitTime > 0 => train_df[k].is_park_open = 1

\* Inference half of C10: a row the park's operating hours leave closed,
\* whose attraction has no closure entry of its own and for which the caller
\* supplied a positive current wait, is open and its prediction is not forced.
C10_InferencePath ==
    \A k \in DOMAIN features_df :
        LET row == features_df[k]
        IN  (/\ ~ParkLevelOpen(row)
             /\ ~ClosureEntry(row)
             /\ CallerWait(row.attractionId) > 0)
              => /\ row.is_park_open = 1
                 /\ row.status # "CLOSED"
                 /\ results[k].crowdLevel # "closed"

\* C10: when the schedule does not mark a row as open but ground truth
\* contradicts it (training: the row's actual wait is positive; inference:
\* the caller supplied a positive current wait for the attraction), the row
\* is open on both paths: is_park_open = 1, and at inference its status is
\* not CLOSED and its prediction is not forced to 0 / "closed".
C10_GroundTruthForcesOpen == C10_TrainingPath /\ C10_InferencePath

(***************************************************************************)
(* schedule_filter.py: filter_predictions_by_schedule                      *)
(***************************************************************************)

\* How a time zone suffix shifts the wall-clock reading, in half hours.
utcoffset_of(suffix) == IF suffix = "+02:00" THEN 4 ELSE 0

\* Lines 83-92: "Z" becomes "+00:00", the string is parsed, a naive result
\* is taken as UTC, and the instant is returned.
parse_predicted_time(s) ==
    LET suffix == IF s.utcoffset = "Z" THEN "+00:00" ELSE s.utcoffset
    IN  s.wall - utcoffset_of(suffix)

\* pred_time_local.date(): the calendar date in the park's time zone.
pred_date(pred) == (parse_predicted_time(pred.predictedTime) + tz_offset) \div 48

RECURSIVE park_order(_)
\* The keys of park_predictions_map in insertion order.
park_order(preds) ==
    IF preds = <<>> THEN <<>>
    ELSE LET front == park_order(SubSeq(preds, 1, Len(preds) - 1))
             park_id == preds[Len(preds)].parkId
         IN  IF park_id = "" \/ park_id \in Range(front)
             THEN front ELSE Append(front, park_id)

park_preds_of(preds, park_id) ==
    LET of_park(pred) == pred.parkId = park_id
    IN  SelectSeq(preds, of_park)

\* Lines 104-121: the park-level OPERATING rows of the park on the dates.
operating_query(park_id, date_set) ==
    { e \in schedule_entries :
        /\ e.parkId = park_id
        /\ e.attractionId = ParkLevel
        /\ e.date \in date_set
        /\ e.scheduleType = "OPERATING" }

\* Line 217, with the inclusive variant beside it.
within_operating_hours_inclusive(entry, t) ==
    entry.openingTime <= t /\ t <= entry.closingTime

within_operating_hours(entry, t) ==
    entry.openingTime <= t /\ t < entry.closingTime

\* Lines 166-223: schedule_map holds the rows that have both times.
keep_hourly(pred, schedules) ==
    LET schedule_map == { e \in schedules : e.has_times }
        of_date == { e \in schedule_map : e.date = pred_date(pred) }
    IN  /\ of_date # {}
        /\ within_operating_hours(CHOOSE e \in of_date : TRUE,
                                  parse_predicted_time(pred.predictedTime))

\* Line 255, with a variant that keeps every date beside it.
in_operating_dates_any(d, schedules) == TRUE

in_operating_dates(d, schedules) == \E e \in schedules : e.date = d

\* Lines 228-260.
keep_daily(pred, schedules) == in_operating_dates(pred_date(pred), schedules)

\* Lines 60-264: the body of the loop over the parks.
filter_park(park_id, park_preds, prediction_type, md) ==
    IF md[park_id] # "ok"
    THEN park_preds
    ELSE LET date_set == { pred_date(park_preds[i]) : i \in DOMAIN park_preds }
             schedules == operating_query(park_id, date_set)
             hourly(pred) == keep_hourly(pred, schedules)
             daily(pred) == keep_daily(pred, schedules)
         IN  IF schedules = {} THEN park_preds
             ELSE IF prediction_type = "hourly" THEN SelectSeq(park_preds, hourly)
             ELSE IF prediction_type = "daily" THEN SelectSeq(park_preds, daily)
             ELSE <<>>

RECURSIVE filter_parks(_, _, _, _)
filter_parks(parks, preds, prediction_type, md) ==
    IF parks = <<>> THEN <<>>
    ELSE filter_park(Head(parks), park_preds_of(preds, Head(parks)),
                     prediction_type, md)
         \o filter_parks(Tail(parks), preds, prediction_type, md)

filter_predictions_by_schedule(predictions, prediction_type, md) ==
    IF predictions = <<>> THEN <<>>
    ELSE filter_parks(park_order(predictions), predictions, prediction_type, md)

\* The rows the schedule_entries table may hold for the filter: operating
\* hours on days 0 and 1, a row without times, a row of another park and
\* rows of one attraction.
FilterScheduleUniverse(tz) ==
    { ScheduleEntry("p1", ParkLevel, 0, "OPERATING", TRUE, tz),
      ScheduleEntry("p1", ParkLevel, 1, "OPERATING", TRUE, tz),
      ScheduleEntry("p1", ParkLevel, 1, "OPERATING", FALSE, tz),
      ScheduleEntry("p2", ParkLevel, 0, "OPERATING", TRUE, tz),
      ScheduleEntry("p1", "a1", 2, "OPERATING", TRUE, tz),
      ScheduleEntry("p1", "a1", 0, "MAINTENANCE", FALSE, tz) }

FilterSchedules(tz) ==
    { S \in SUBSET FilterScheduleUniverse(tz) : Cardinality(S) <= MaxEntries }

FilterRequests ==
    { [present |-> TRUE,
       attraction_ids |-> ids,
       park_ids |-> [i \in DOMAIN ids |-> park_of(ids[i])],
       prediction_type |-> type,
       base_time |-> base,
       current_wait_times |-> EmptyDict_cw,
       p50_baseline |-> [given |-> FALSE, value |-> 0]] :
         ids \in RequestedAttractions, type \in {"hourly", "daily"},
         base \in {18, 33, 46} }

\* What fetch_parks_metadata() returns when the filter asks.
MetadataStates ==
    { [p \in {"p1", "p2"} |-> IF p = "p1" THEN m1 ELSE m2] :
        m1 \in {"ok", "missing", "invalid_tz"}, m2 \in {"ok", "missing"} }

InitFilter ==
    /\ tz_offset \in TzOffsets
    /\ schedule_entries \in FilterSchedules(tz_offset)
    /\ request \in FilterRequests
    /\ regressor = [raw |-> 330, uncertainty_available |-> FALSE, uncertainty |-> 0]
    /\ features_df = <<>>
    /\ results = <<>>
    /\ pc = "request"
    /\ train_batch = <<>>
    /\ train_df = <<>>
    /\ FilterIdle
    /\ Ext2Idle
    /\ HolIdle
    /\ HistIdle
    /\ SchemaIdle

\* main.predict, lines 330-335: the predictions go through the filter.
FilterPredictionsBySchedule ==
    /\ pc = "predicted"
    /\ \E md \in MetadataStates :
          /\ parks_metadata' = md
          /\ filtered' = [called |-> TRUE,
                          predictions |->
                             filter_predictions_by_schedule(
                                 results, request.prediction_type, md)]
    /\ pc' = "filtered"
    /\ UNCHANGED <<schedule_entries, tz_offset, request, regressor,
                   features_df, results, train_batch, train_df,
                   holVars, histVars, schemaVars, ext2Vars>>

NextFilter == PredictWaitTimes \/ FilterPredictionsBySchedule

SpecFilter == InitFilter /\ [][NextFilter]_vars

(***************************************************************************)
(* Properties of the schedule filter                                       *)
(***************************************************************************)

\* The prediction at position i of the unfiltered list is returned.
Kept(i) ==
    \E j \in DOMAIN filtered.predictions : filtered.predictions[j] = results[i]

\* The park-level OPERATING rows of a park and a local date that carry an
\* opening and a closing time.
TimedOperating(park_id, d) ==
    { e \in schedule_entries :
        /\ e.parkId = park_id
        /\ e.attractionId = ParkLevel
        /\ e.date = d
        /\ e.scheduleType = "OPERATING"
        /\ e.has_times }

\* Schedule data exists for a park: usable opening and closing times on a
\* local date of one of the park's predictions.
HasScheduleData(park_id) ==
    \E i \in DOMAIN features_df :
        /\ features_df[i].parkId = park_id
        /\ TimedOperating(park_id, local_date(features_df[i].timestamp)) # {}

OperatingOn(park_id, d) ==
    { e \in schedule_entries :
        /\ e.parkId = park_id
        /\ e.attractionId = ParkLevel
        /\ e.date = d
        /\ e.scheduleType = "OPERATING" }

\* C12: for daily predictions of a park with schedule data the filter
\* returns a prediction if and only if its calendar date in the park's time
\* zone has an OPERATING entry of that park.
C12_DailyKeepsOperatingDates ==
    (filtered.called /\ request.prediction_type = "daily")
    => \A i \in DOMAIN results :
          LET row == features_df[i]
          IN  (parks_metadata[row.parkId] = "ok" /\ HasScheduleData(row.parkId))
              => (Kept(i) <=> OperatingOn(row.parkId,
                                          local_date(row.timestamp)) # {})

\* A day with an OPERATING entry is returned, the following day, which has
\* only an OPERATING entry of an attraction or none, is dropped.
C12_Witness ==
    /\ filtered.called
    /\ request.prediction_type = "daily"
    /\ parks_metadata["p1"] = "ok"
    /\ \E i, k \in DOMAIN results :
          /\ features_df[i].parkId = "p1" /\ features_df[k].parkId = "p1"
          /\ OperatingOn("p1", local_date(features_df[i].timestamp)) # {}
          /\ Kept(i)
          /\ OperatingOn("p1", local_date(features_df[k].timestamp)) = {}
          /\ ~Kept(k)

\* The filter returns every prediction of the park, in their order.
AllKept(park_id) ==
    park_preds_of(filtered.predictions, park_id) = park_preds_of(results, park_id)

\* C13: when no schedule data exists for a park (no usable OPERATING opening
\* and closing times on the dates of the park's predictions), or the park has
\* no metadata or an invalid time zone, the filter returns every prediction
\* of that park unchanged, for hourly and for daily predictions.
C13_FailOpenWithoutScheduleData ==
    filtered.called
    => \A park_id \in Range(request.park_ids) :
          (\/ parks_metadata[park_id] # "ok"
           \/ ~HasScheduleData(park_id))
          => AllKept(park_id)

\* The narrower case the code serves: no park-level OPERATING row at all on
\* the dates of the park's predictions.
C13_NoOperatingRow ==
    filtered.called
    => \A park_id \in Range(request.park_ids) :
          (\/ parks_metadata[park_id] # "ok"
           \/ \A i \in DOMAIN features_df :
                 features_df[i].parkId = park_id
                   => OperatingOn(park_id, local_date(features_df[i].timestamp)) = {})
          => AllKept(park_id)

(***************************************************************************)
(* predict.create_prediction_features: the historical columns              *)
(* (lines 706-947)                                                         *)
(*                                                                         *)
(* A column value is an exact fraction sum / n; n = 0 is NaN.  fn names    *)
(* the function applied to the fraction: "id", or "log1p_sqrt" for the     *)
(* dampened standard deviation log1p(sqrt(sum / n)).                       *)
(***************************************************************************)

MaxRecent == 3   \* rows fetch_recent_wait_times returns

Num(s, n) == [sum |-> s, n |-> n, fn |-> "id"]

NaN == Num(0, 0)

IsNaN(v) == v.n = 0

hour_of(t) == (t % 48) \div 2

date_of(t) == t \div 48

RECURSIVE SumAvgWait(_)
SumAvgWait(rows) ==
    IF rows = {} THEN 0
    ELSE LET r == CHOOSE x \in rows : TRUE
         IN  r.avg_wait + SumAvgWait(rows \ {r})

RECURSIVE SumSquares(_)
SumSquares(rows) ==
    IF rows = {} THEN 0
    ELSE LET r == CHOOSE x \in rows : TRUE
         IN  r.avg_wait * r.avg_wait + SumSquares(rows \ {r})

\* rows["avg_wait"].mean()
avg_wait_mean(rows) == Num(SumAvgWait(rows), Cardinality(rows))

\* rows["avg_wait"].mean() if len(rows) > 0 else fallback
mean_or(rows, fallback) == IF rows # {} THEN avg_wait_mean(rows) ELSE fallback

\* np.log1p(rows["avg_wait"].std()): the sample variance is
\* (n * sum(x^2) - sum(x)^2) / (n * (n - 1)).
log1p_std(rows) ==
    LET n == Cardinality(rows)
    IN  [sum |-> n * SumSquares(rows) - SumAvgWait(rows) * SumAvgWait(rows),
         n |-> n * (n - 1),
         fn |-> "log1p_sqrt"]

\* (a - b) / k for two fractions
difference_over(a, b, k) == Num(a.sum * b.n - b.sum * a.n, k * a.n * b.n)

\* Lines 752-909: the values of one attraction that has rows in recent_data.
attraction_history(attraction_data, base_time, tz) ==
    LET base_time_local == base_time + tz
        today == date_of(base_time_local)
        on(d, h) == { r \in attraction_data : r.date = d /\ r.hour = h }
        since(d) == { r \in attraction_data : r.date >= d }
        overall_avg == avg_wait_mean(attraction_data)
        last_7_days == since(today - 7)
        rolling_7d == mean_or(last_7_days, overall_avg)
        avg_24h == mean_or(since(today - 1), rolling_7d)
        prev_local == base_time_local - 2
        prev_utc == base_time - 2
        local_1h == on(date_of(prev_local), hour_of(prev_local))
        last_1h_data == IF local_1h # {} THEN local_1h
                        ELSE on(date_of(prev_utc), hour_of(prev_utc))
        avg_yesterday_fallback ==
            mean_or(on(date_of(prev_local) - 1, hour_of(prev_local)), avg_24h)
        avg_1h == mean_or(last_1h_data, avg_yesterday_fallback)
        current_hour_local == hour_of(base_time_local)
        avg_same_hour == mean_or(on(today - 7, current_hour_local), rolling_7d)
        avg_same_hour_month == mean_or(on(today - 30, current_hour_local), rolling_7d)
        last_14_days == since(today - 14)
        recent_7d == { r \in last_14_days : r.date >= today - 7 }
        previous_7d == { r \in last_14_days : r.date < today - 7 }
        trend_7d == IF Cardinality(last_14_days) >= 2
                       /\ recent_7d # {} /\ previous_7d # {}
                    THEN difference_over(avg_wait_mean(recent_7d),
                                         avg_wait_mean(previous_7d), 7)
                    ELSE Num(0, 1)
        volatility_7d == IF Cardinality(last_7_days) > 1
                         THEN log1p_std(last_7_days) ELSE Num(0, 1)
    IN  [avg_wait_last_24h |-> avg_24h,
         avg_wait_last_1h |-> avg_1h,
         avg_wait_same_hour_last_week |-> avg_same_hour,
         avg_wait_same_hour_last_month |-> avg_same_hour_month,
         rolling_avg_7d |-> rolling_7d,
         trend_7d |-> trend_7d,
         volatility_7d |-> volatility_7d]

\* Lines 711-716: the columns created with a default before the loop.
history_defaults ==
    [avg_wait_last_24h |-> Num(30, 1),
     avg_wait_last_1h |-> Num(30, 1),
     avg_wait_same_hour_last_week |-> Num(35, 1),
     avg_wait_same_hour_last_month |-> Num(35, 1),
     rolling_avg_7d |-> Num(32, 1),
     trend_7d |-> Num(0, 1)]

\* volatility_7d of a row the loop did not assign.  The column has no
\* default before the loop: df.loc[mask, "volatility_7d"] = ... creates it
\* with NaN in the other rows, and lines 918-919 only add the column when no
\* attraction of the request created it.
unassigned_volatility(column_exists) ==
    IF column_exists THEN NaN ELSE Num(0, 1)

\* Lines 921-947: a current wait time overrides the lag and sets the velocity.
with_current_wait(row, current_wait_times) ==
    IF row.attractionId \in DOMAIN current_wait_times
    THEN LET wait_time == current_wait_times[row.attractionId]
         IN  [row EXCEPT
                !.wait_time_velocity =
                    IF ~IsNaN(row.avg_wait_last_1h)
                    THEN difference_over(Num(wait_time, 1), row.avg_wait_last_1h, 6)
                    ELSE Num(0, 1),
                !.avg_wait_last_1h = Num(wait_time, 1)]
    ELSE row

\* Line 708: the stored hourly averages of the requested attractions.
fetch_recent_wait_times(attraction_ids) ==
    { r \in recent_data : r.attractionId \in Range(attraction_ids) }

\* One row per requested attraction: every timestamp of an attraction gets
\* the same values.
historical_columns(attraction_ids, base_time, tz, current_wait_times, data) ==
    LET data_of(a) == { r \in data : r.attractionId = a }
        column_exists == \E i \in DOMAIN attraction_ids :
                            data_of(attraction_ids[i]) # {}
    IN  [i \in DOMAIN attraction_ids |->
            LET a == attraction_ids[i]
                h == attraction_history(data_of(a), base_time, tz)
                assigned == data # {} /\ data_of(a) # {}
                row == [attractionId |-> a,
                        avg_wait_last_24h |->
                            IF assigned THEN h.avg_wait_last_24h
                            ELSE history_defaults.avg_wait_last_24h,
                        avg_wait_last_1h |->
                            IF assigned THEN h.avg_wait_last_1h
                            ELSE history_defaults.avg_wait_last_1h,
                        avg_wait_same_hour_last_week |->
                            IF assigned THEN h.avg_wait_same_hour_last_week
                            ELSE history_defaults.avg_wait_same_hour_last_week,
                        avg_wait_same_hour_last_month |->
                            IF assigned THEN h.avg_wait_same_hour_last_month
                            ELSE history_defaults.avg_wait_same_hour_last_month,
                        rolling_avg_7d |->
                            IF assigned THEN h.rolling_avg_7d
                            ELSE history_defaults.rolling_avg_7d,
                        trend_7d |->
                            IF assigned THEN h.trend_7d
                            ELSE history_defaults.trend_7d,
                        volatility_7d |->
                            IF assigned THEN h.volatility_7d
                            ELSE unassigned_volatility(column_exists),
                        wait_time_velocity |-> Num(0, 1)]
            IN  with_current_wait(row, current_wait_times)]

\* The rows fetch_recent_wait_times may return: hourly averages of a1 and a2
\* on days 1 to 31; a3 has no history.
RecentUniverse ==
    { [attractionId |-> "a1", date |-> 31, hour |-> 9,  avg_wait |-> 40],
      [attractionId |-> "a1", date |-> 31, hour |-> 10, avg_wait |-> 130],
      [attractionId |-> "a1", date |-> 30, hour |-> 9,  avg_wait |-> 20],
      [attractionId |-> "a1", date |-> 30, hour |-> 23, avg_wait |-> 35],
      [attractionId |-> "a1", date |-> 24, hour |-> 10, avg_wait |-> 10],
      [attractionId |-> "a1", date |-> 20, hour |-> 10, avg_wait |-> 30],
      [attractionId |-> "a1", date |-> 1,  hour |-> 10, avg_wait |-> 50],
      [attractionId |-> "a2", date |-> 31, hour |-> 9,  avg_wait |-> 45],
      [attractionId |-> "a2", date |-> 20, hour |-> 10, avg_wait |-> 15] }

LagRequests ==
    { [present |-> TRUE, attraction_ids |-> ids, base_time |-> base,
       tz |-> tz, current_wait_times |-> cw] :
        ids \in RequestedAttractions, base \in {1508, 1489},
        tz \in TzOffsets, cw \in {EmptyDict_cw, [a \in {"a1"} |-> 20]} }

InitLag ==
    /\ lag_request \in LagRequests
    /\ recent_data \in { D \in SUBSET RecentUniverse : Cardinality(D) <= MaxRecent }
    /\ lag_df = <<>>
    /\ FilterIdle
    /\ Ext3Idle
    /\ HolIdle
    /\ HistIdle
    /\ SchemaIdle
    /\ PredIdle

\* create_prediction_features, lines 706-947
CreateHistoricalColumns ==
    /\ lag_request.present
    /\ lag_df = <<>>
    /\ lag_df' = historical_columns(lag_request.attraction_ids,
                                    lag_request.base_time, lag_request.tz,
                                    lag_request.current_wait_times,
                                    fetch_recent_wait_times(lag_request.attraction_ids))
    /\ UNCHANGED <<lag_request, recent_data, holVars, histVars, schemaVars,
                   predVars, filterVars, ext3Vars>>

NextLag == CreateHistoricalColumns

SpecLag == InitLag /\ [][NextLag]_vars

HistoricalColumnNames ==
    {"avg_wait_last_24h", "avg_wait_last_1h", "avg_wait_same_hour_last_week",
     "avg_wait_same_hour_last_month", "rolling_avg_7d", "trend_7d",
     "volatility_7d", "wait_time_velocity"}

\* C14: the feature table built at inference holds no NaN in a declared
\* feature column of any row, for every mix of attractions in one request;
\* in particular volatility_7d, trend_7d and the rolling and lag columns of
\* an attraction without history have their default when another attraction
\* of the request has history.
C14_NoNaNInInferenceFeatures ==
    \A i \in DOMAIN lag_df :
        \A c \in HistoricalColumnNames : ~IsNaN(lag_df[i][c])

\* Without volatility_7d the columns are defined in every row.
C14_OtherColumnsDefined ==
    \A i \in DOMAIN lag_df :
        \A c \in HistoricalColumnNames \ {"volatility_7d"} : ~IsNaN(lag_df[i][c])

(***************************************************************************)
(* main.py: the shared model reference, /model/reload and the training     *)
(* worker.  The startup handler has run: the reference is None or the      *)
(* model it loaded.  The handlers and the worker thread are interleaved    *)
(* statement by statement.                                                 *)
(***************************************************************************)

MaxModels == 3   \* WaitTimeModel objects constructed after startup

\* Every /train request that passes the is_training test starts a thread.
Workers == {"worker1", "worker2"}

Procs == {"reload"} \cup Workers

\* WaitTimeModel(version): a new object with self.model = None.
construct(h) == Append(h, "constructed")

\* `model = new_model` comes after new_model.load() has returned.
ready_to_swap_early(position) == position \in {"loading", "loaded"}

ready_to_swap(position) == position = "loaded"

\* training_worker, lines 222-227: the worker's first statements
marked_training ==
    [is_training |-> TRUE, status |-> "training", finished_at |-> "None"]

training_finished_flag_kept(outcome) ==
    [is_training |-> TRUE, status |-> outcome, finished_at |-> "set"]

\* training_worker, lines 232-234 (outcome "completed") and 254-257
\* (outcome "failed")
training_finished(outcome) ==
    [is_training |-> FALSE, status |-> outcome, finished_at |-> "set"]

InitSwap ==
    /\ \/ global_model = 0 /\ heap = <<>>
       \/ global_model = 1 /\ heap = <<"loaded">>
    /\ proc = [p \in Procs |-> [at |-> "idle", new_model |-> 0]]
    /\ training_status = [is_training |-> FALSE, status |-> "idle",
                          finished_at |-> "None"]
    /\ observed = "unread"
    /\ Ext4Idle
    /\ FilterIdle
    /\ LagIdle
    /\ HolIdle
    /\ HistIdle
    /\ SchemaIdle
    /\ PredIdle

otherThanSwap ==
    <<holVars, histVars, schemaVars, predVars, filterVars, lagVars, ext4Vars>>

\* reload_model, lines 156-161: fetch the active version, construct.
ReloadConstruct ==
    /\ proc["reload"].at = "idle"
    /\ Len(heap) < MaxModels + 1
    /\ heap' = construct(heap)
    /\ proc' = [proc EXCEPT !["reload"] = [at |-> "loading", new_model |-> Len(heap) + 1]]
    /\ UNCHANGED <<global_model, training_status, observed, otherThanSwap>>

\* train_model_endpoint, lines 205-259: refuse while training, else start
\* the worker thread.
StartTraining(w) ==
    /\ ~training_status.is_training
    /\ proc[w].at = "idle"
    /\ proc' = [proc EXCEPT ![w].at = "started"]
    /\ UNCHANGED <<global_model, heap, training_status, observed, otherThanSwap>>

\* training_worker, lines 222-227
WorkerMarksTraining(w) ==
    /\ proc[w].at = "started"
    /\ training_status' = marked_training
    /\ proc' = [proc EXCEPT ![w].at = "training"]
    /\ UNCHANGED <<global_model, heap, observed, otherThanSwap>>

\* training_worker, lines 229-236: train_model returned.
WorkerTrainingCompleted(w) ==
    /\ proc[w].at = "training"
    /\ training_status' = training_finished("completed")
    /\ proc' = [proc EXCEPT ![w].at = "completed"]
    /\ UNCHANGED <<global_model, heap, observed, otherThanSwap>>

\* training_worker, lines 248-257: train_model raised.
WorkerTrainingFailed(w) ==
    /\ proc[w].at = "training"
    /\ training_status' = training_finished("failed")
    /\ proc' = [proc EXCEPT ![w].at = "idle"]
    /\ UNCHANGED <<global_model, heap, observed, otherThanSwap>>

\* training_worker, line 241: new_model = WaitTimeModel(version)
WorkerConstruct(w) ==
    /\ proc[w].at = "completed"
    /\ Len(heap) < MaxModels + 1
    /\ heap' = construct(heap)
    /\ proc' = [proc EXCEPT ![w] = [at |-> "loading", new_model |-> Len(heap) + 1]]
    /\ UNCHANGED <<global_model, training_status, observed, otherThanSwap>>

\* WaitTimeModel.load, lines 202-204: self.model is set and the model file
\* is read; the metadata and model_feature_columns are not set yet.
LoadModelFile(p) ==
    /\ proc[p].at = "loading"
    /\ heap[proc[p].new_model] = "constructed"
    /\ heap' = [heap EXCEPT ![proc[p].new_model] = "partial"]
    /\ UNCHANGED <<global_model, proc, training_status, observed, otherThanSwap>>

\* WaitTimeModel.load, lines 206-251: the rest of load() returns.
LoadCompletes(p) ==
    /\ proc[p].at = "loading"
    /\ heap[proc[p].new_model] = "partial"
    /\ heap' = [heap EXCEPT ![proc[p].new_model] = "loaded"]
    /\ proc' = [proc EXCEPT ![p].at = "loaded"]
    /\ UNCHANGED <<global_model, training_status, observed, otherThanSwap>>

\* load() raises, before or after self.model was set: reload_model answers
\* 500 (lines 170-172), the worker logs the failure (lines 245-246).
LoadFails(p) ==
    /\ proc[p].at = "loading"
    /\ proc' = [proc EXCEPT ![p] = [at |-> "idle", new_model |-> 0]]
    /\ UNCHANGED <<global_model, heap, training_status, observed, otherThanSwap>>

\* model = new_model (lines 163 and 243)
Swap(p) ==
    /\ ready_to_swap(proc[p].at)
    /\ global_model' = proc[p].new_model
    /\ proc' = [proc EXCEPT ![p] = [at |-> "idle", new_model |-> 0]]
    /\ UNCHANGED <<heap, training_status, observed, otherThanSwap>>

\* A request handler reads the global: predict, get_model_info, health.
HandleRequest ==
    /\ observed' = IF global_model = 0 THEN "none" ELSE heap[global_model]
    /\ UNCHANGED <<global_model, heap, proc, training_status, otherThanSwap>>

NextSwap ==
    \/ ReloadConstruct
    \/ \E w \in Workers : StartTraining(w)
    \/ \E w \in Workers : WorkerMarksTraining(w)
    \/ \E w \in Workers : WorkerTrainingCompleted(w)
    \/ \E w \in Workers : WorkerTrainingFailed(w)
    \/ \E w \in Workers : WorkerConstruct(w)
    \/ \E p \in Procs : LoadModelFile(p)
    \/ \E p \in Procs : LoadCompletes(p)
    \/ \E p \in Procs : LoadFails(p)
    \/ \E p \in Procs : Swap(p)
    \/ HandleRequest

SpecSwap == InitSwap /\ [][NextSwap]_vars

\* The reference is None or a fully loaded model, and so is what a request
\* handler found behind it.
ReferenceLoaded ==
    /\ global_model = 0 \/ heap[global_model] = "loaded"
    /\ observed \in {"unread", "none", "loaded"}

\* The reference changes only to a loaded model; a step in which a load or
\* a training fails leaves it alone.
SwapsOnlyLoaded ==
    /\ global_model' # global_model
         => global_model' # 0 /\ heap'[global_model'] = "loaded"
    /\ (\E p \in Procs : proc[p].at \in {"loading", "training"}
                           /\ proc'[p].at = "idle")
         => global_model' = global_model

\* C15: the shared model reference is only ever replaced as a whole by a
\* model whose load() has completed: in every interleaving of request
\* handling, /model/reload and the training worker it is None or a fully
\* loaded model, and a failed load or a failed training leaves it pointing
\* at the previously loaded model.
C15_ReferenceSwappedWhole == []ReferenceLoaded /\ [][SwapsOnlyLoaded]_vars

\* The reference was replaced by a reloaded model while the worker's own
\* new model is half loaded, and a request has read the reference.
C15_Witness ==
    /\ global_model > 1
    /\ proc["worker1"].at = "loading"
    /\ heap[proc["worker1"].new_model] = "partial"
    /\ observed = "loaded"

(***************************************************************************)
(* predict.py: round_to_nearest_5 and the crowd level, as functions of     *)
(* their inputs                                                            *)
(***************************************************************************)

MaxValue10 == 400    \* largest raw value, in tenths of a minute
MaxWaitSteps == 13   \* largest regressor answer of a crowd-level input, in
                     \* steps of 5 minutes

RoundInputs ==
    { [present |-> TRUE, kind |-> "round", value10 |-> v] :
        v \in (0 - 60)..MaxValue10 }

InitRound ==
    /\ post_in \in RoundInputs
    /\ post_out = NotCalled
    /\ Ext5Idle
    /\ SwapIdle
    /\ FilterIdle
    /\ LagIdle
    /\ HolIdle
    /\ HistIdle
    /\ SchemaIdle
    /\ PredIdle

otherThanPost ==
    <<holVars, histVars, schemaVars, predVars, filterVars, lagVars, swapVars,
      ext5Vars>>

\* round_to_nearest_5(value)
RoundToNearest5 ==
    /\ post_in.present /\ post_in.kind = "round"
    /\ post_out = NotCalled
    /\ post_out' = [called |-> TRUE, result |-> round_to_nearest_5(post_in.value10)]
    /\ UNCHANGED <<post_in, otherThanPost>>

NextRound == RoundToNearest5

SpecRound == InitRound /\ [][NextRound]_vars

\* C16: round_to_nearest_5 returns 0 below 2.5 and floor((value + 2.5) / 5)
\* * 5 otherwise; for a value >= 0 the result is a non-negative multiple of
\* 5 at most 2.5 away from the value, a value halfway between two multiples
\* of 5 goes to the larger one, and 2.4 -> 0, 2.5 -> 5, 7.2 -> 5, 8.9 -> 10,
\* 12.4 -> 10, 34.7 -> 35.
C16_RoundToNearest5 ==
    (post_out.called /\ post_in.kind = "round")
    => LET v == post_in.value10
           r == post_out.result
       IN  /\ v < 25 => r = 0
           /\ v >= 25 => r = ((v + 25) \div 50) * 5
           /\ v >= 0 => /\ r >= 0
                        /\ r % 5 = 0
                        /\ 10 * r - v <= 25
                        /\ v - 10 * r <= 25
           /\ v % 50 = 25 => 10 * r = v + 25
           /\ v = 24 => r = 0
           /\ v = 25 => r = 5
           /\ v = 72 => r = 5
           /\ v = 89 => r = 10
           /\ v = 124 => r = 10
           /\ v = 347 => r = 35

\* 12.5 lies halfway between 10 and 15 and went to 15.
C16_Witness ==
    /\ post_out.called
    /\ post_in.kind = "round"
    /\ post_in.value10 = 125
    /\ post_out.result = 15

\* ---- the crowd level of two points that share one baseline ---------------

CrowdInputs ==
    { [present |-> TRUE, kind |-> "crowd",
       pred_wait_a |-> 5 * ka, pred_wait_b |-> 5 * kb,
       p50_baseline |-> p50, rolling_avg_7d |-> avg] :
        ka \in 0..MaxWaitSteps, kb \in 0..MaxWaitSteps,
        p50 \in { [given |-> FALSE, value |-> 0], [given |-> TRUE, value |-> 0],
                  [given |-> TRUE, value |-> 20], [given |-> TRUE, value |-> 33] },
        avg \in {0, 32} }

InitCrowd ==
    /\ post_in \in CrowdInputs
    /\ post_out = NotCalled
    /\ Ext5Idle
    /\ SwapIdle
    /\ FilterIdle
    /\ LagIdle
    /\ HolIdle
    /\ HistIdle
    /\ SchemaIdle
    /\ PredIdle

\* predict_wait_times, lines 1128-1155, for two rows that are not closed
CrowdLevel ==
    /\ post_in.present /\ post_in.kind = "crowd"
    /\ post_out = NotCalled
    /\ LET baseline == baseline_of(post_in.p50_baseline,
                                   [rolling_avg_7d |-> post_in.rolling_avg_7d])
       IN  post_out' = [called |-> TRUE,
                        baseline |-> baseline,
                        crowdLevel_a |-> crowd_level(post_in.pred_wait_a, baseline),
                        crowdLevel_b |-> crowd_level(post_in.pred_wait_b, baseline)]
    /\ UNCHANGED <<post_in, otherThanPost>>

NextCrowd == CrowdLevel

SpecCrowd == InitCrowd /\ [][NextCrowd]_vars

CrowdLevels == <<"very_low", "low", "moderate", "high", "very_high", "extreme">>

LevelRank(level) == CHOOSE i \in 1..Len(CrowdLevels) : CrowdLevels[i] = level

\* the level the thresholds 50, 79, 120, 170, 250 give to 100 * wait / baseline
LevelOfPct(wait, baseline) ==
    CHOOSE i \in 1..6 :
        /\ i = 1 <=> 100 * wait <= 50 * baseline
        /\ i = 2 <=> (100 * wait > 50 * baseline /\ 100 * wait <= 79 * baseline)
        /\ i = 3 <=> (100 * wait > 79 * baseline /\ 100 * wait <= 120 * baseline)
        /\ i = 4 <=> (100 * wait > 120 * baseline /\ 100 * wait <= 170 * baseline)
        /\ i = 5 <=> (100 * wait > 170 * baseline /\ 100 * wait <= 250 * baseline)
        /\ i = 6 <=> 100 * wait > 250 * baseline

\* C19: for a point that is not closed and a positive baseline, crowdLevel
\* is very_low up to 50 percent of the baseline, low up to 79, moderate up
\* to 120, high up to 170, very_high up to 250 and extreme above, and it
\* never decreases when the predicted wait increases.
C19_CrowdLevelThresholds ==
    (post_out.called /\ post_in.kind = "crowd" /\ post_out.baseline > 0)
    => /\ post_out.crowdLevel_a
              = CrowdLevels[LevelOfPct(post_in.pred_wait_a, post_out.baseline)]
       /\ post_out.crowdLevel_b
              = CrowdLevels[LevelOfPct(post_in.pred_wait_b, post_out.baseline)]
       /\ post_in.pred_wait_a <= post_in.pred_wait_b
              => LevelRank(post_out.crowdLevel_a)
                     <= LevelRank(post_out.crowdLevel_b)

\* With the baseline 20, a wait of 10 is exactly 50 percent and very_low, and
\* a wait of 55 is extreme.
C19_Witness ==
    /\ post_out.called
    /\ post_in.kind = "crowd"
    /\ post_out.baseline = 20
    /\ post_in.pred_wait_a = 10
    /\ post_out.crowdLevel_a = "very_low"
    /\ post_in.pred_wait_b = 55
    /\ post_out.crowdLevel_b = "extreme"

(***************************************************************************)
(* Regional holiday flags: features.add_holiday_features (training) and    *)
(* the holiday block of predict.create_prediction_features (inference).    *)
(* A region code is the sequence of its parts between '-' characters:      *)
(* 'DE-NW' is <<"DE", "NW">>, 'NW' is <<"NW">>, None and '' are <<>>.      *)
(* One row of the feature table is followed; its local date is RowDate.    *)
(***************************************************************************)

MaxHolidayRows == 2   \* most rows of the holidays table
RowDate == 0          \* local date of the followed row
NoType == "none"      \* no holiday found

\* holiday_utils.normalize_region_code
normalize_region_code(code) ==
    IF code = <<>> THEN <<>> ELSE <<code[Len(code)]>>

HolidayRow(c, r, t, d) ==
    [country |-> c, region |-> r, holiday_type |-> t, date |-> d,
     is_nationwide |-> (r = <<>>)]

\* rows the holidays table can hold: nationwide rows of two countries and
\* rows of a region written with or without its country prefix
HolidayUniverse ==
    { HolidayRow(c, <<>>, "public", RowDate) : c \in {"DE", "NL"} }
    \cup { HolidayRow("DE", r, t, RowDate) :
             r \in {<<"NW">>, <<"DE", "NW">>, <<"BY">>, <<"DE", "BY">>},
             t \in {"public", "school"} }
    \cup { HolidayRow("DE", <<"NW">>, "public", RowDate + 1),
           HolidayRow("DE", <<>>, "school", RowDate) }

HolidayTables ==
    UNION { [1..n -> HolidayUniverse] : n \in 0..MaxHolidayRows }

InfluencingRegions ==
    { <<>>,
      << [countryCode |-> "NL", regionCode |-> <<>>] >>,
      << [countryCode |-> "DE", regionCode |-> <<"BY">>] >>,
      << [countryCode |-> "DE", regionCode |-> <<"DE", "BY">>] >> }

ParkInfos ==
    { [present |-> TRUE, country |-> "DE", region_code |-> r,
       influencingRegions |-> n] :
        r \in {<<>>, <<"NW">>, <<"DE", "NW">>}, n \in InfluencingRegions }

first_type(rows) == IF rows = <<>> THEN NoType ELSE rows[1].holiday_type

last_type(rows) == IF rows = <<>> THEN NoType ELSE rows[Len(rows)].holiday_type

flag(type, wanted) == IF type = wanted THEN 1 ELSE 0

nth_flag(flags, i) == IF Len(flags) >= i THEN flags[i] ELSE 0

first_three(regions) == SubSeq(regions, 1, Min(Len(regions), 3))

any_flag(flags) == \E i \in 1..Len(flags) : flags[i] = 1

holiday_columns(primary_type, neighbor_types) ==
    LET neighbor_flags ==
            [i \in 1..Len(neighbor_types) |-> flag(neighbor_types[i], "public")]
        neighbor_school_flags ==
            [i \in 1..Len(neighbor_types) |-> flag(neighbor_types[i], "school")]
    IN  [called |-> TRUE,
         is_holiday_primary |-> flag(primary_type, "public"),
         is_school_holiday_primary |-> flag(primary_type, "school"),
         is_holiday_neighbor_1 |-> nth_flag(neighbor_flags, 1),
         is_holiday_neighbor_2 |-> nth_flag(neighbor_flags, 2),
         is_holiday_neighbor_3 |-> nth_flag(neighbor_flags, 3),
         is_school_holiday_any |->
            flag(primary_type = "school" \/ any_flag(neighbor_school_flags), TRUE)]

\* features.add_holiday_features for the followed row: the primary type
\* comes from two left merges (regional on normalized codes, then national),
\* the neighbour types from the two lookup maps.
add_holiday_features(holidays, park, date_local) ==
    LET regional_holidays == SelectSeq(holidays, LAMBDA h : h.region # <<>>)
        national_holidays == SelectSeq(holidays, LAMBDA h : h.is_nationwide)
        primary_holiday_type_regional ==
            first_type(SelectSeq(regional_holidays, LAMBDA h :
                /\ h.country = park.country
                /\ normalize_region_code(h.region)
                       = normalize_region_code(park.region_code)
                /\ park.region_code # <<>>
                /\ h.date = date_local))
        primary_holiday_type_national ==
            first_type(SelectSeq(national_holidays, LAMBDA h :
                h.country = park.country /\ h.date = date_local))
        primary_holiday_type ==
            IF primary_holiday_type_regional # NoType
            THEN primary_holiday_type_regional
            ELSE primary_holiday_type_national
        holiday_map_regional(c, r) ==
            last_type(SelectSeq(holidays, LAMBDA h :
                /\ h.region # <<>>
                /\ h.country = c
                /\ normalize_region_code(h.region) = r
                /\ h.date = date_local))
        holiday_map_national(c) ==
            last_type(SelectSeq(holidays, LAMBDA h :
                h.is_nationwide /\ h.country = c /\ h.date = date_local))
        check_neighbor_holidays(region_def) ==
            LET n_type ==
                    IF region_def.regionCode # <<>>
                    THEN holiday_map_regional(region_def.countryCode,
                             normalize_region_code(region_def.regionCode))
                    ELSE NoType
            IN  IF n_type = NoType
                THEN holiday_map_national(region_def.countryCode)
                ELSE n_type
        raw_regions == first_three(park.influencingRegions)
    IN  holiday_columns(primary_holiday_type,
            [i \in 1..Len(raw_regions) |-> check_neighbor_holidays(raw_regions[i])])

\* predict.create_prediction_features, holiday block, for the followed row:
\* one dict keyed by (country, region, date) for rows with a region and by
\* (country, date) for the others; the codes are used as they are stored.
prediction_holiday_features(holidays, park, date_local) ==
    LET holiday_lookup_regional(c, r) ==
            last_type(SelectSeq(holidays, LAMBDA h :
                /\ h.region # <<>>
                /\ h.country = c
                /\ h.region = r
                /\ h.date = date_local))
        holiday_lookup_national(c) ==
            last_type(SelectSeq(holidays, LAMBDA h :
                h.region = <<>> /\ h.country = c /\ h.date = date_local))
        lookup(c, r) ==
            LET h_type == IF r # <<>> THEN holiday_lookup_regional(c, r)
                          ELSE NoType
            IN  IF h_type = NoType THEN holiday_lookup_national(c) ELSE h_type
        influencing_regions == first_three(park.influencingRegions)
    IN  holiday_columns(lookup(park.country, park.region_code),
            [i \in 1..Len(influencing_regions) |->
                lookup(influencing_regions[i].countryCode,
                       influencing_regions[i].regionCode)])

InitRegion ==
    /\ holidays_df \in HolidayTables
    /\ park_info \in ParkInfos
    /\ training_flags = NotCalled
    /\ inference_flags = NotCalled
    /\ Ext6Idle
    /\ PostIdle
    /\ SwapIdle
    /\ FilterIdle
    /\ LagIdle
    /\ HolIdle
    /\ HistIdle
    /\ SchemaIdle
    /\ PredIdle

otherThanRegion ==
    <<holVars, histVars, schemaVars, predVars, filterVars, lagVars, swapVars,
      postVars, ext6Vars>>

AddHolidayFeatures ==
    /\ park_info.present
    /\ training_flags = NotCalled
    /\ training_flags' = add_holiday_features(holidays_df, park_info, RowDate)
    /\ UNCHANGED <<holidays_df, park_info, inference_flags, otherThanRegion>>

PredictionHolidayFeatures ==
    /\ park_info.present
    /\ inference_flags = NotCalled
    /\ inference_flags' =
           prediction_holiday_features(holidays_df, park_info, RowDate)
    /\ UNCHANGED <<holidays_df, park_info, training_flags, otherThanRegion>>

NextRegion == AddHolidayFeatures \/ PredictionHolidayFeatures

SpecRegion == InitRegion /\ [][NextRegion]_vars

\* The holidays table holds one row, for the park's country and the row's
\* date, whose region equals the park's region after normalization.
OneRowOfParkRegion ==
    /\ Len(holidays_df) = 1
    /\ park_info.region_code # <<>>
    /\ holidays_df[1].country = park_info.country
    /\ holidays_df[1].date = RowDate
    /\ normalize_region_code(holidays_df[1].region)
           = normalize_region_code(park_info.region_code)

\* C17: region codes are normalized on both sides before a regional holiday
\* lookup, in training and in inference: when the only holiday row is one
\* of the park's region, written with or without the country prefix, both
\* paths set the primary flag of the row's type.
C17_RegionNormalizedOnBothPaths ==
    (OneRowOfParkRegion /\ training_flags.called /\ inference_flags.called)
    => /\ training_flags.is_holiday_primary
              = flag(holidays_df[1].holiday_type, "public")
       /\ inference_flags.is_holiday_primary
              = flag(holidays_df[1].holiday_type, "public")
       /\ inference_flags.is_school_holiday_primary
              = training_flags.is_school_holiday_primary

\* The training path alone does what C17 says.
C17_TrainingNormalizes ==
    (OneRowOfParkRegion /\ training_flags.called)
    => /\ training_flags.is_holiday_primary
              = flag(holidays_df[1].holiday_type, "public")
       /\ training_flags.is_school_holiday_primary
              = flag(holidays_df[1].holiday_type, "school")

\* The two paths agree whenever every code is stored without a prefix.
NoPrefixAnywhere ==
    /\ Len(park_info.region_code) <= 1
    /\ \A i \in 1..Len(park_info.influencingRegions) :
           Len(park_info.influencingRegions[i].regionCode) <= 1
    /\ \A i \in 1..Len(holidays_df) : Len(holidays_df[i].region) <= 1

C17_SameFlagsWithoutPrefix ==
    (NoPrefixAnywhere /\ Len(holidays_df) <= 1
        /\ training_flags.called /\ inference_flags.called)
    => training_flags = inference_flags

(***************************************************************************)
(* data_validation.validate_training_data, step 1: extreme outliers.       *)
(* Only attractionId and waitTime matter to this step.  Quantiles are      *)
(* pandas' linear interpolation, kept exact as four times their value.     *)
(***************************************************************************)

MaxBatchRows == 10        \* most rows of the followed attraction
MAX_WAIT_TIME == 600
MinGroupSize == 10        \* group_sizes >= 10
StatisticalFloor == 200   \* df["waitTime"] > 200

WaitValues == {0 - 5, 0, 100, 200, 300, 600, 700}

RECURSIVE insert_sorted(_, _)
insert_sorted(sorted, v) ==
    IF sorted = <<>> THEN <<v>>
    ELSE IF v <= Head(sorted) THEN <<v>> \o sorted
    ELSE <<Head(sorted)>> \o insert_sorted(Tail(sorted), v)

RECURSIVE sort_values(_)
sort_values(values) ==
    IF values = <<>> THEN <<>>
    ELSE insert_sorted(sort_values(Tail(values)), Head(values))

group_waits(df, attraction) ==
    LET rows == SelectSeq(df, LAMBDA r : r.attractionId = attraction)
    IN  [i \in 1..Len(rows) |-> rows[i].waitTime]

\* four times Series.quantile(quarters / 4) of a non-empty group
quantile4(values, quarters) ==
    LET sorted == sort_values(values)
        position4 == (Len(sorted) - 1) * quarters
        lower == position4 \div 4
        fraction4 == position4 % 4
    IN  IF fraction4 = 0 THEN 4 * sorted[lower + 1]
        ELSE 4 * sorted[lower + 1]
             + fraction4 * (sorted[lower + 2] - sorted[lower + 1])

\* four times Q3 + 3 * IQR of the attraction's group
upper_bound4(df, attraction) ==
    LET Q1 == quantile4(group_waits(df, attraction), 1)
        Q3 == quantile4(group_waits(df, attraction), 3)
        IQR == Q3 - Q1
    IN  Q3 + 3 * IQR

statistical_outlier_without_floor(df, row) ==
    /\ Len(group_waits(df, row.attractionId)) >= MinGroupSize
    /\ 4 * row.waitTime > upper_bound4(df, row.attractionId)

statistical_outlier(df, row) ==
    /\ Len(group_waits(df, row.attractionId)) >= MinGroupSize
    /\ 4 * row.waitTime > upper_bound4(df, row.attractionId)
    /\ row.waitTime > StatisticalFloor

outlier_mask(df, row) ==
    \/ row.waitTime < 0
    \/ row.waitTime > MAX_WAIT_TIME
    \/ statistical_outlier(df, row)

remove_outliers(df) == SelectSeq(df, LAMBDA r : ~outlier_mask(df, r))

\* The batch grows one reading at a time.  The step looks at the rows of an
\* attraction only as a collection, so the readings of a1 are taken in
\* non-decreasing order: one representative of every collection.
InitValidation ==
    /\ raw_df \in {<<>>, << [attractionId |-> "a2", waitTime |-> 300] >>}
    /\ cleaned_df = NotCalled
    /\ Ext7Idle
    /\ RegionIdle
    /\ PostIdle
    /\ SwapIdle
    /\ FilterIdle
    /\ LagIdle
    /\ HolIdle
    /\ HistIdle
    /\ SchemaIdle
    /\ PredIdle

otherThanValidation ==
    <<holVars, histVars, schemaVars, predVars, filterVars, lagVars, swapVars,
      postVars, regionVars, ext7Vars>>

RecordWaitTime ==
    /\ cleaned_df = NotCalled
    /\ Len(group_waits(raw_df, "a1")) < MaxBatchRows
    /\ \E w \in WaitValues :
          /\ \A i \in 1..Len(raw_df) :
                 raw_df[i].attractionId = "a1" => raw_df[i].waitTime <= w
          /\ raw_df' = Append(raw_df, [attractionId |-> "a1", waitTime |-> w])
    /\ UNCHANGED <<cleaned_df, otherThanValidation>>

RemoveExtremeOutliers ==
    /\ cleaned_df = NotCalled
    /\ raw_df # <<>>
    /\ cleaned_df' = [called |-> TRUE, rows |-> remove_outliers(raw_df)]
    /\ UNCHANGED <<raw_df, otherThanValidation>>

NextValidation == RecordWaitTime \/ RemoveExtremeOutliers

SpecValidation == InitValidation /\ [][NextValidation]_vars

Retained(row) == \E i \in 1..Len(cleaned_df.rows) : cleaned_df.rows[i] = row

GroupSize(attraction) ==
    Cardinality({ i \in 1..Len(raw_df) : raw_df[i].attractionId = attraction })

\* C18: the outlier step removes a row iff its wait is negative, or above
\* 600, or its attraction has at least 10 samples and the wait exceeds both
\* Q3 + 3 * IQR of the attraction and 200; so every retained wait lies in
\* [0, 600] and no wait in [0, 200] is removed.
C18_OutlierStep ==
    cleaned_df.called
    => /\ \A i \in 1..Len(raw_df) :
            LET row == raw_df[i]
            IN  /\ ~Retained(row)
                    <=> \/ row.waitTime < 0
                        \/ row.waitTime > 600
                        \/ /\ GroupSize(row.attractionId) >= 10
                           /\ 4 * row.waitTime
                                  > upper_bound4(raw_df, row.attractionId)
                           /\ row.waitTime > 200
                /\ (row.waitTime >= 0 /\ row.waitTime <= 200) => Retained(row)
       /\ \A j \in 1..Len(cleaned_df.rows) :
            /\ cleaned_df.rows[j].waitTime >= 0
            /\ cleaned_df.rows[j].waitTime <= 600
       /\ Len(cleaned_df.rows) <= Len(raw_df)

\* A wait of 300 in a group of ten was removed as a statistical outlier while
\* the same wait of an attraction with one sample was retained.
C18_Witness ==
    /\ cleaned_df.called
    /\ GroupSize("a1") >= 10
    /\ \E i \in 1..Len(raw_df) :
          /\ raw_df[i] = [attractionId |-> "a1", waitTime |-> 300]
          /\ ~Retained(raw_df[i])
    /\ Retained([attractionId |-> "a2", waitTime |-> 300])

(***************************************************************************)
(* main.predict: the /predict endpoint.  The handler reads the shared      *)
(* model reference, validates the request and hands the two id lists to    *)
(* predict_wait_times, whose base table pairs them with zip.  A response   *)
(* carries the (attraction, park, timestamp) rows it holds predictions     *)
(* for.                                                                    *)
(***************************************************************************)

MaxIds == 2            \* longest id list of a request
EndpointBaseTime == 18 \* baseTime of the requests

IdLists(ids) == UNION { [1..n -> ids] : n \in 0..MaxIds }

PredictionRequests ==
    { [present |-> TRUE, attractionIds |-> a, parkIds |-> p,
       predictionType |-> t] :
        a \in IdLists({"a1", "a2"}), p \in IdLists({"p1", "p2"}),
        t \in {"hourly", "daily", "weekly"} }

HTTPException(code) == [called |-> TRUE, status_code |-> code, predictions |-> <<>>]

length_check_missing(req) == FALSE

length_mismatch(req) == Len(req.attractionIds) # Len(req.parkIds)

\* The rows predict_wait_times returns predictions for.
predicted_rows(req) ==
    base_rows(req.attractionIds, req.parkIds,
              generate_future_timestamps(EndpointBaseTime, req.predictionType))

InitEndpoint ==
    /\ http_request \in PredictionRequests
    /\ http_response = NotCalled
    /\ \/ global_model = 0 /\ heap = <<>>
       \/ global_model = 1 /\ heap = <<"loaded">>
    /\ proc = <<>>
    /\ training_status = [is_training |-> FALSE, status |-> "idle",
                          finished_at |-> "None"]
    /\ observed = "unread"
    /\ Ext8Idle
    /\ ValidationIdle
    /\ RegionIdle
    /\ PostIdle
    /\ FilterIdle
    /\ LagIdle
    /\ HolIdle
    /\ HistIdle
    /\ SchemaIdle
    /\ PredIdle

otherThanEndpoint ==
    <<holVars, histVars, schemaVars, predVars, filterVars, lagVars, swapVars,
      postVars, regionVars, validationVars, ext8Vars>>

\* predict(request); failed stands for any exception inside the try block.
PredictEndpoint ==
    /\ http_request.present
    /\ http_response = NotCalled
    /\ \E failed \in BOOLEAN :
          http_response' =
              IF global_model = 0 THEN HTTPException(503)
              ELSE IF length_mismatch(http_request) THEN HTTPException(400)
              ELSE IF http_request.predictionType \notin {"hourly", "daily"}
                   THEN HTTPException(400)
              ELSE IF failed THEN HTTPException(500)
              ELSE [called |-> TRUE, status_code |-> 200,
                    predictions |-> predicted_rows(http_request)]
    /\ UNCHANGED <<http_request, otherThanEndpoint>>

NextEndpoint == PredictEndpoint

SpecEndpoint == InitEndpoint /\ [][NextEndpoint]_vars

KeyStates == {"no_key", "no_entity", "supplied"}

\* featureContext is None, or a dict; a dict without keys is {}.
FeatureContexts ==
    { [present |-> FALSE] }
    \cup { [present |-> TRUE, maps |-> m] : m \in [ContextKeys -> KeyStates] }

\* columns of the inference table when the context block starts
InferenceColumns == {"attractionId", "parkId", "timestamp", "local_timestamp"}

SuppliedOccupancy == 80      \* parkOccupancy["p1"]
SuppliedDowntime == 15       \* downtimeCache["a1"]

Raised == [called |-> TRUE, raised |-> TRUE]

\* features.add_park_occupancy_feature: "raise" stands for the KeyError of
\* df.groupby("parkId")["waitTime"] on a table without that column.
add_park_occupancy_feature(ctx, columns) ==
    IF has_key(ctx, "parkOccupancy")
    THEN IF ctx.maps["parkOccupancy"] = "supplied"
         THEN SuppliedOccupancy ELSE 100
    ELSE IF "waitTime" \in columns THEN 100 ELSE 0 - 1

add_downtime_features(ctx) ==
    IF has_key(ctx, "downtimeCache") /\ ctx.maps["downtimeCache"] = "supplied"
    THEN [had_downtime_today |-> 1, downtime_minutes_today |-> SuppliedDowntime]
    ELSE [had_downtime_today |-> 0, downtime_minutes_today |-> 0]

add_virtual_queue_feature(ctx) ==
    IF has_key(ctx, "queueData") /\ ctx.maps["queueData"] = "supplied"
    THEN 1 ELSE 0

\* features.add_park_has_schedule_feature: without the key the function
\* asks schedule_entries whether the park has an OPERATING row; a failing
\* query keeps the initial 1.
add_park_has_schedule_feature(ctx, db) ==
    IF has_key(ctx, "parkHasSchedule")
    THEN IF ctx.maps["parkHasSchedule"] = "supplied" THEN 0 ELSE 1
    ELSE IF db.fails THEN 1
    ELSE IF db.has_operating THEN 1 ELSE 0

context_block(ctx, db, columns) ==
    IF context_truthy(ctx)
    THEN IF add_park_occupancy_feature(ctx, columns) < 0 THEN Raised
         ELSE [called |-> TRUE, raised |-> FALSE,
               park_occupancy_pct |-> add_park_occupancy_feature(ctx, columns),
               time_since_park_open_mins |-> add_time_since_park_open(ctx),
               had_downtime_today |-> add_downtime_features(ctx).had_downtime_today,
               downtime_minutes_today |->
                   add_downtime_features(ctx).downtime_minutes_today,
               has_virtual_queue |-> add_virtual_queue_feature(ctx),
               park_has_schedule |-> add_park_has_schedule_feature(ctx, db)]
    ELSE [called |-> TRUE, raised |-> FALSE,
          park_occupancy_pct |-> 100,
          time_since_park_open_mins |-> 0,
          had_downtime_today |-> 0,
          downtime_minutes_today |-> 0,
          has_virtual_queue |-> 0,
          park_has_schedule |-> 1]

InitContext ==
    /\ feature_context \in FeatureContexts
    /\ schedule_db \in [present : {TRUE}, has_operating : BOOLEAN, fails : BOOLEAN]
    /\ context_features = NotCalled
    /\ Ext9Idle
    /\ EndpointIdle
    /\ ValidationIdle
    /\ RegionIdle
    /\ PostIdle
    /\ SwapIdle
    /\ FilterIdle
    /\ LagIdle
    /\ HolIdle
    /\ HistIdle
    /\ SchemaIdle
    /\ PredIdle

otherThanContext ==
    <<holVars, histVars, schemaVars, predVars, filterVars, lagVars, swapVars,
      postVars, regionVars, validationVars, endpointVars, ext9Vars>>

AddContextFeatures ==
    /\ schedule_db.present
    /\ context_features = NotCalled
    /\ context_features' =
           context_block(feature_context, schedule_db, InferenceColumns)
    /\ UNCHANGED <<feature_context, schedule_db, otherThanContext>>

NextContext == AddContextFeatures

SpecContext == InitContext /\ [][NextContext]_vars

\* the caller supplied no value of this map for the row's entity
NotSupplied(k) ==
    ~feature_context.present \/ feature_context.maps[k] # "supplied"

\* C21: for every live override the caller did not supply (no context, no
\* such key, or no such entity) the computation completes without error and
\* the feature takes its neutral default.
C21_MissingOverridesDefault ==
    context_features.called
    => /\ ~context_features.raised
       /\ NotSupplied("parkOccupancy")
              => context_features.park_occupancy_pct = 100
       /\ NotSupplied("parkOpeningTimes")
              => context_features.time_since_park_open_mins = 0
       /\ NotSupplied("downtimeCache")
              => /\ context_features.had_downtime_today = 0
                 /\ context_features.downtime_minutes_today = 0
       /\ NotSupplied("queueData")
              => context_features.has_virtual_queue = 0
       /\ NotSupplied("parkHasSchedule")
              => context_features.park_has_schedule = 1

\* Without any context, or with every map present, the defaults are as
\* C21 says.
C21_DefaultsWhenNoKeyIsMissing ==
    (context_features.called
        /\ (~context_truthy(feature_context)
            \/ \A k \in ContextKeys : feature_context.maps[k] # "no_key"))
    => /\ ~context_features.raised
       /\ NotSupplied("parkOccupancy")
              => context_features.park_occupancy_pct = 100
       /\ NotSupplied("parkOpeningTimes")
              => context_features.time_since_park_open_mins = 0
       /\ NotSupplied("downtimeCache")
              => /\ context_features.had_downtime_today = 0
                 /\ context_features.downtime_minutes_today = 0
       /\ NotSupplied("queueData")
              => context_features.has_virtual_queue = 0
       /\ NotSupplied("parkHasSchedule")
              => context_features.park_has_schedule = 1

\* The computation raises exactly when a non-empty context lacks
\* parkOccupancy.
C21_RaisesWithoutOccupancyKey ==
    context_features.called
    => (context_features.raised
            <=> /\ context_truthy(feature_context)
                /\ feature_context.maps["parkOccupancy"] = "no_key")

(***************************************************************************)
(* The closing boundary and the training-path open flag (SpecPredict)      *)
(***************************************************************************)

\* The timed park-level OPERATING entries of the row's park and local date.
TimedOperatingEntries(row) == { e \in OperatingEntries(row) : e.has_times }

AtClosing(row) ==
    \E e \in TimedOperatingEntries(row) : row.timestamp = e.closingTime

\* C22: a timestamp exactly equal to the closing time of the park-level
\* OPERATING entry of its date is resolved as not open, at inference and in
\* training (for a row the correction rule does not apply to).
C22_ClosingTimeIsNotOpen ==
    /\ \A k \in DOMAIN features_df :
           AtClosing(features_df[k]) => features_df[k].is_park_open = 0
    /\ \A k \in DOMAIN train_df :
           (AtClosing(train_df[k]) /\ train_df[k].waitTime = 0)
               => train_df[k].is_park_open = 0

\* At inference a timestamp after the closing time is resolved as not open:
\* only the boundary itself is on the wrong side.
C22_AfterClosingIsNotOpen ==
    \A k \in DOMAIN features_df :
        (\E e \in TimedOperatingEntries(features_df[k]) :
             features_df[k].timestamp > e.closingTime)
            => features_df[k].is_park_open = 0

OutsideOperatingHours(row) ==
    /\ TimedOperatingEntries(row) # {}
    /\ \A e \in TimedOperatingEntries(row) :
           row.timestamp < e.openingTime \/ row.timestamp >= e.closingTime

\* C23: in training, a row whose park has an OPERATING entry for its local
\* date, whose timestamp lies outside [opening, closing) and whose wait is 0
\* gets is_park_open = 0.
C23_TrainingRowOutsideHoursIsClosed ==
    \A k \in DOMAIN train_df :
        (OutsideOperatingHours(train_df[k]) /\ train_df[k].waitTime = 0)
            => train_df[k].is_park_open = 0

\* Without any OPERATING row in the fetched schedules a training row with
\* wait 0 stays at the initial 0.
C23_NoOperatingRowStaysClosed ==
    \A k \in DOMAIN train_df :
        ((\A e \in schedule_entries : e.scheduleType # "OPERATING")
            /\ train_df[k].waitTime = 0)
            => train_df[k].is_park_open = 0

\* the value of the schedule step for a row with a timed OPERATING entry
MinutesSinceOpening(row) ==
    LET e == CHOOSE e \in TimedOperatingEntries(row) : TRUE
    IN  MinutesPerStep * Max(0, row.timestamp - e.openingTime)

\* C24: in the final table of engineer_features, time_since_park_open_mins
\* of a row on a date with an OPERATING entry equals max(0, local timestamp
\* - opening) in minutes: no later step overwrites the schedule step.
C24_TimeSinceOpenSurvives ==
    pc = "engineered"
    => \A k \in DOMAIN train_df :
           TimedOperatingEntries(train_df[k]) # {}
               => train_df[k].time_since_park_open_mins
                      = MinutesSinceOpening(train_df[k])

\* Right after the schedule step the column holds that value.
C24_ScheduleStepValue ==
    pc = "trained"
    => \A k \in DOMAIN train_df :
           TimedOperatingEntries(train_df[k]) # {}
               => train_df[k].time_since_park_open_mins
                      = MinutesSinceOpening(train_df[k])

(***************************************************************************)
(* Trend and volatility of the training path (SpecHistorical)              *)
(***************************************************************************)

SameFraction(a, b) == a.num * b.den = b.num * a.den

\* the attraction's observations strictly before t
ObservationsBefore(a, t) ==
    { r \in batch : r.attractionId = a /\ r.timestamp < t }

\* C25: in training, trend_7d and volatility_7d of a row at time t are
\* computed from that attraction's trailing observations before t only (the
\* last 168 at most, 0 with fewer than 2): no observation at or after t
\* contributes.
C25_TrendFromPastOnly ==
    \A i \in DOMAIN hist_df :
        LET r == hist_df[i]
            past == trend_volatility(
                        tail_rows(ObservationsBefore(r.attractionId, r.timestamp),
                                  TrendSamples))
        IN  /\ SameFraction(r.trend_7d, past.trend_7d)
            /\ SameFraction(r.volatility_7d, past.volatility_7d)

\* What the training path does instead: the rows of one attraction all carry
\* the same trend and the same volatility, the value of the whole group.
C25_OneValuePerGroup ==
    \A i, j \in DOMAIN hist_df :
        hist_df[i].attractionId = hist_df[j].attractionId
            => /\ hist_df[i].trend_7d = hist_df[j].trend_7d
               /\ hist_df[i].volatility_7d = hist_df[j].volatility_7d

(***************************************************************************)
(* The volatility cap on both paths (SpecLag, SpecHistorical)              *)
(***************************************************************************)

\* the square of the cap on the standard deviation
CapSquared == VOLATILITY_CAP_STD_MINUTES * VOLATILITY_CAP_STD_MINUTES

\* C26: volatility_7d is log(1 + std) capped at log(1 + CAP) on both paths,
\* so the inference feature never exceeds log(1 + CAP) either.  log1p and the
\* square root are increasing: log1p(sqrt(v)) <= log1p(CAP) iff v <= CAP^2.
C26_InferenceVolatilityCapped ==
    \A i \in DOMAIN lag_df :
        LET v == lag_df[i].volatility_7d
        IN  (~IsNaN(v) /\ v.fn = "log1p_sqrt") => v.sum <= CapSquared * v.n

\* The training path does cap: no row's volatility_7d exceeds log(1 + CAP).
C26_TrainingVolatilityCapped ==
    \A i \in DOMAIN hist_df :
        hist_df[i].volatility_7d.num <= CapSquared * hist_df[i].volatility_7d.den

\* ... and the cap is what a training group with a larger deviation gets
C26_TrainingCapReached ==
    \E i \in DOMAIN hist_df :
        /\ hist_df[i].volatility_7d = [num |-> CapSquared, den |-> 1]
        /\ \E q, r \in batch : /\ q.attractionId = hist_df[i].attractionId
                               /\ r.attractionId = hist_df[i].attractionId
                               /\ q.waitTime # r.waitTime

(***************************************************************************)
(* db.fetch_parks_metadata: the cache of the parks table (lines 295-357)   *)
(*                                                                         *)
(* A table is [version, fetched_at]: the version of the database rows the  *)
(* query read and the time of the query.  A call is one step: the query    *)
(* and the two assignments that follow it read the same clock value.       *)
(***************************************************************************)

MaxClock == 600        \* the clock stops here
MaxTableVersion == 2   \* updates of the parks table

parks_metadata_cache_ttl == 300

\* the gaps between two events, chosen so that ages just below, at and above
\* the TTL happen
ClockSteps == {149, 150}

cache_fresh_at_ttl(age) == age <= parks_metadata_cache_ttl

cache_fresh(age) == age < parks_metadata_cache_ttl

\* Lines 314-324: the cached table, if the call may answer from the cache
cache_hit(use_cache) ==
    /\ use_cache
    /\ parks_metadata_cache.present
    /\ parks_metadata_cache_time # NoTime
    /\ cache_fresh(clock - parks_metadata_cache_time)

\* Lines 326-355: the query
query_parks == [present |-> TRUE, version |-> parks_table, fetched_at |-> clock]

InitCache ==
    /\ clock = 0
    /\ parks_table = 0
    /\ parks_metadata_cache = [present |-> FALSE]
    /\ parks_metadata_cache_time = NoTime
    /\ fetched = NotCalled
    /\ Ext10Idle
    /\ ContextIdle
    /\ EndpointIdle
    /\ ValidationIdle
    /\ RegionIdle
    /\ PostIdle
    /\ SwapIdle
    /\ FilterIdle
    /\ LagIdle
    /\ HolIdle
    /\ HistIdle
    /\ SchemaIdle
    /\ PredIdle

otherThanCache ==
    <<holVars, histVars, schemaVars, predVars, filterVars, lagVars, swapVars,
      postVars, regionVars, validationVars, endpointVars, contextVars,
      ext10Vars>>

\* fetch_parks_metadata(use_cache)
FetchParksMetadata ==
    \E use_cache \in BOOLEAN :
        /\ IF cache_hit(use_cache)
           THEN /\ fetched' = [called |-> TRUE, use_cache |-> use_cache,
                               at |-> clock, refetched |-> FALSE,
                               table |-> parks_metadata_cache]
                /\ UNCHANGED <<parks_metadata_cache, parks_metadata_cache_time>>
           ELSE /\ fetched' = [called |-> TRUE, use_cache |-> use_cache,
                               at |-> clock, refetched |-> TRUE,
                               table |-> query_parks]
                /\ IF use_cache
                   THEN /\ parks_metadata_cache' = query_parks
                        /\ parks_metadata_cache_time' = clock
                   ELSE UNCHANGED <<parks_metadata_cache,
                                    parks_metadata_cache_time>>
        /\ UNCHANGED <<clock, parks_table, otherThanCache>>

\* time passes
Tick ==
    \E d \in ClockSteps :
        /\ clock + d <= MaxClock
        /\ clock' = clock + d
        /\ UNCHANGED <<parks_table, parks_metadata_cache,
                       parks_metadata_cache_time, fetched, otherThanCache>>

\* the API writes the parks table
UpdateParks ==
    /\ parks_table < MaxTableVersion
    /\ parks_table' = parks_table + 1
    /\ UNCHANGED <<clock, parks_metadata_cache, parks_metadata_cache_time,
                   fetched, otherThanCache>>

NextCache == FetchParksMetadata \/ Tick \/ UpdateParks

SpecCache == InitCache /\ [][NextCache]_vars

C27_RefetchAtTTL ==
    /\ fetched.called
    /\ fetched.use_cache
    /\ fetched.refetched
    /\ fetched.at >= parks_metadata_cache_ttl
    /\ parks_metadata_cache_time = fetched.at

(***************************************************************************)
(* main.py: the /train endpoint and its worker threads (SpecSwap)          *)
(***************************************************************************)

\* the workers whose training run was accepted and has not finished
TrainingWorkers == { w \in Workers : proc[w].at \in {"started", "training"} }

\* C28: at most one training worker exists at any time: a /train request
\* that arrives after another was accepted and before that one finished
\* starts no second worker.
C28_AtMostOneTrainingWorker == Cardinality(TrainingWorkers) <= 1

\* What the test of the handler does give: no worker is started in a state
\* in which a worker has set is_training.
C28_NoStartWhileFlagSet ==
    [][training_status.is_training
          => \A w \in Workers : ~(proc[w].at = "idle" /\ proc'[w].at = "started")]_vars

\* The /train endpoint and its workers alone (the reload handler and the
\* request handlers do not touch training_status).  The training worker's
\* steps are those of a running thread, and train_model returns or raises.
NextTraining ==
    \/ \E w \in Workers : StartTraining(w)
    \/ \E w \in Workers : WorkerMarksTraining(w)
    \/ \E w \in Workers : WorkerTrainingCompleted(w)
    \/ \E w \in Workers : WorkerTrainingFailed(w)
    \/ \E w \in Workers : WorkerConstruct(w)
    \/ \E w \in Workers : LoadModelFile(w)
    \/ \E w \in Workers : LoadCompletes(w)
    \/ \E w \in Workers : LoadFails(w)
    \/ \E w \in Workers : Swap(w)

SpecTraining ==
    /\ InitSwap
    /\ [][NextTraining]_vars
    /\ \A w \in Workers : WF_vars(WorkerMarksTraining(w))
    /\ \A w \in Workers : WF_vars(WorkerTrainingCompleted(w) \/ WorkerTrainingFailed(w))

TerminalStatus ==
    /\ ~training_status.is_training
    /\ training_status.finished_at = "set"
    /\ training_status.status \in {"completed", "failed"}

\* C30: every accepted training run eventually ends, provided train_model
\* returns or raises, in a terminal state: is_training false, finished_at
\* set, status completed or failed.  The status is not left at 'training'
\* once the workers have ended, whether or not the automatic load succeeds.
C30_TrainingRunEnds ==
    /\ \A w \in Workers : (proc[w].at = "started") ~> TerminalStatus
    /\ [](TrainingWorkers = {}
            => training_status.status # "training" /\ ~training_status.is_training)

\* a run has ended in 'completed' and its automatic load has failed
C30_Witness ==
    /\ TerminalStatus
    /\ training_status.status = "completed"
    /\ TrainingWorkers = {}
    /\ \A w \in Workers : proc[w].at = "idle"
    /\ global_model = 0
    /\ Len(heap) > 0

(***************************************************************************)
(* main.predict beside the training worker (lines 284-348, 238-246)        *)
(*                                                                         *)
(* The handler runs on the event loop, the training worker in a thread of  *)
(* its own: the worker's `model = new_model` can come between any two      *)
(* statements of the handler.                                              *)
(***************************************************************************)

MaxServedModels == 3   \* WaitTimeModel objects of the heap
MaxPredictions == 2    \* rows of one response

Versions == {"v1", "v2"}

\* predict_wait_times, lines 1157-1171: every row carries model.version of
\* the model object the handler passed in
predictions_of(passed_model, count) ==
    [i \in 1..count |-> [modelVersion |-> versions[passed_model]]]

\* Line 340: modelVersion = model.version reads the global again
response_version == versions[global_model]

InitServe ==
    /\ \/ global_model = 0 /\ heap = <<>> /\ versions = <<>>
       \/ global_model = 1 /\ heap = <<"loaded">> /\ versions \in [{1} -> Versions]
    /\ proc = <<>>
    /\ training_status = [is_training |-> FALSE, status |-> "idle",
                          finished_at |-> "None"]
    /\ observed = "unread"
    /\ predict_call = [at |-> "idle"]
    /\ served = NotCalled
    /\ CacheIdle
    /\ ContextIdle
    /\ EndpointIdle
    /\ ValidationIdle
    /\ RegionIdle
    /\ PostIdle
    /\ FilterIdle
    /\ LagIdle
    /\ HolIdle
    /\ HistIdle
    /\ SchemaIdle
    /\ PredIdle

otherThanServe ==
    <<holVars, histVars, schemaVars, predVars, filterVars, lagVars, postVars,
      regionVars, validationVars, endpointVars, contextVars, cacheVars,
      proc, training_status, observed>>

\* Lines 294-295: no model, 503
PredictWithoutModel ==
    /\ predict_call.at = "idle"
    /\ global_model = 0
    /\ served' = [called |-> TRUE, status |-> 503]
    /\ UNCHANGED <<global_model, heap, versions, predict_call, otherThanServe>>

\* Lines 315-333: predict_wait_times(model, ...) and the schedule filter
PredictComputes ==
    /\ predict_call.at = "idle"
    /\ global_model # 0
    /\ \E count \in 0..MaxPredictions :
          predict_call' = [at |-> "predicted", passed |-> global_model,
                           predictions |-> predictions_of(global_model, count)]
    /\ UNCHANGED <<global_model, heap, versions, served, otherThanServe>>

\* Lines 336-340: the response
PredictResponds ==
    /\ predict_call.at = "predicted"
    /\ served' = [called |-> TRUE, status |-> 200,
                  predictions |-> predict_call.predictions,
                  count |-> Len(predict_call.predictions),
                  modelVersion |-> response_version]
    /\ predict_call' = [at |-> "idle"]
    /\ UNCHANGED <<global_model, heap, versions, otherThanServe>>

\* Lines 342-348: an exception of the prediction, 500
PredictRaises ==
    /\ predict_call.at = "predicted"
    /\ served' = [called |-> TRUE, status |-> 500]
    /\ predict_call' = [at |-> "idle"]
    /\ UNCHANGED <<global_model, heap, versions, otherThanServe>>

\* training_worker, lines 241-243: the worker has constructed and loaded the
\* model of its version and assigns it to the global
WorkerSwapsModel ==
    /\ Len(heap) < MaxServedModels
    /\ \E v \in Versions :
          /\ heap' = Append(heap, "loaded")
          /\ versions' = Append(versions, v)
          /\ global_model' = Len(heap) + 1
    /\ UNCHANGED <<predict_call, served, otherThanServe>>

NextServe ==
    \/ PredictWithoutModel
    \/ PredictComputes
    \/ PredictResponds
    \/ PredictRaises
    \/ WorkerSwapsModel

SpecServe == InitServe /\ [][NextServe]_vars

Answered == served.called /\ served.status = 200

\* C29: every /predict response is consistent under concurrent swaps: its
\* top-level modelVersion equals the modelVersion of every prediction in it.
C29_ResponseVersionConsistent ==
    Answered =>
        \A i \in DOMAIN served.predictions :
            served.predictions[i].modelVersion = served.modelVersion

\* The predictions of one response all carry one version, and the top-level
\* version is that of a model of the heap.
C29_PredictionsShareVersion ==
    Answered =>
        /\ \A i, j \in DOMAIN served.predictions :
              served.predictions[i].modelVersion = served.predictions[j].modelVersion
        /\ \E m \in DOMAIN versions : served.modelVersion = versions[m]

====
